---------------------------- MODULE Spec2Model ----------------------------
(***************************************************************************)
(* A model of sphinx-example-index: the preprocessing hook that writes the *)
(* stub pages, the HTML post-processing that moves each example's built    *)
(* fragment into its standalone page, and the rewriting of relative URLs.  *)
(*                                                                         *)
(* Strings are sequences of one-character strings, so that the string      *)
(* operations of the code (startswith, slicing, the regular expression,    *)
(* os.path) are computed rather than assumed.                              *)
(***************************************************************************)
EXTENDS Naturals, Integers, Sequences, FiniteSets, TLC

(***************************************************************************)
(* Bounds of the model.                                                    *)
(***************************************************************************)
\* longest href / src value enumerated exhaustively over Alphabet
MaxHrefLen == 4
\* deepest directory nesting of an origin page below the build root
MaxDepth == 2
\* number of examples in the cache the post-processor iterates
MaxExamples == 2
\* number of examples detected in a project whose pages are generated
MaxSources == 2
\* number of lines of a text searched for examples
MaxLines == 3

\* length of the title given to an example directive
MaxTitleLen == 3

\* number of builds that call postprocess_examples on the same build directory
MaxRuns == 2

(***************************************************************************)
(* Strings.                                                                *)
(***************************************************************************)
LowerAZ ==
    {"a","b","c","d","e","f","g","h","i","j","k","l","m",
     "n","o","p","q","r","s","t","u","v","w","x","y","z"}

UpperAZ ==
    {"A","B","C","D","E","F","G","H","I","J","K","L","M",
     "N","O","P","Q","R","S","T","U","V","W","X","Y","Z"}

Digits == {"0","1","2","3","4","5","6","7","8","9"}

\* s.startswith(p)
StartsWith(s, p) ==
    /\ Len(s) >= Len(p)
    /\ SubSeq(s, 1, Len(p)) = p

\* s[n:]
DropFirst(s, n) ==
    IF n >= Len(s) THEN << >> ELSE SubSeq(s, n + 1, Len(s))

\* s.rfind("/") + 1: the index of the last "/", 0 when there is none
RECURSIVE LastSlash(_, _)
LastSlash(s, i) ==
    IF i = 0 THEN 0
    ELSE IF s[i] = "/" THEN i
    ELSE LastSlash(s, i - 1)

\* s.rstrip("/")
RECURSIVE RStripSlash(_)
RStripSlash(s) ==
    IF s /= << >> /\ s[Len(s)] = "/"
    THEN RStripSlash(SubSeq(s, 1, Len(s) - 1))
    ELSE s

\* s.split("/"): a sequence of components, empty ones included
RECURSIVE SplitSlash(_, _, _)
SplitSlash(s, i, cur) ==
    IF i > Len(s) THEN << cur >>
    ELSE IF s[i] = "/" THEN << cur >> \o SplitSlash(s, i + 1, << >>)
    ELSE SplitSlash(s, i + 1, Append(cur, s[i]))

\* "/".join(comps)
RECURSIVE JoinSlash(_)
JoinSlash(comps) ==
    IF comps = << >> THEN << >>
    ELSE IF Len(comps) = 1 THEN comps[1]
    ELSE comps[1] \o << "/" >> \o JoinSlash(Tail(comps))

\* [x for x in comps if x]
RECURSIVE NonEmpty(_)
NonEmpty(comps) ==
    IF comps = << >> THEN << >>
    ELSE IF comps[1] = << >> THEN NonEmpty(Tail(comps))
    ELSE << comps[1] >> \o NonEmpty(Tail(comps))

(***************************************************************************)
(* os.path (posixpath) as the post-processor uses it.                      *)
(***************************************************************************)
\* the process's working directory, read by abspath for a relative path
Cwd == << "/", "w" >>

\* os.path.isabs
IsAbs(p) == StartsWith(p, << "/" >>)

\* os.path.join(a, b)
PathJoin(a, b) ==
    IF IsAbs(b) THEN b
    ELSE IF a = << >> \/ a[Len(a)] = "/" THEN a \o b
    ELSE a \o << "/" >> \o b

\* os.path.dirname(p)
Dirname(p) ==
    LET i == LastSlash(p, Len(p))
        head == SubSeq(p, 1, i)
    IN  IF head /= << >> /\ RStripSlash(head) /= << >>
        THEN RStripSlash(head)
        ELSE head

\* the loop of os.path.normpath over the components
RECURSIVE NormComps(_, _, _)
NormComps(comps, new_comps, initial_slashes) ==
    IF comps = << >> THEN new_comps
    ELSE LET comp == comps[1]
             rest == Tail(comps)
         IN  IF comp = << >> \/ comp = << "." >>
             THEN NormComps(rest, new_comps, initial_slashes)
             ELSE IF \/ comp /= << ".", "." >>
                     \/ (initial_slashes = 0 /\ new_comps = << >>)
                     \/ (new_comps /= << >>
                         /\ new_comps[Len(new_comps)] = << ".", "." >>)
             THEN NormComps(rest, Append(new_comps, comp), initial_slashes)
             ELSE IF new_comps /= << >>
             THEN NormComps(rest, SubSeq(new_comps, 1, Len(new_comps) - 1),
                            initial_slashes)
             ELSE NormComps(rest, new_comps, initial_slashes)

\* os.path.normpath(path)
Normpath(path) ==
    IF path = << >> THEN << "." >>
    ELSE LET initial_slashes ==
                 IF ~ StartsWith(path, << "/" >>) THEN 0
                 ELSE IF StartsWith(path, << "/", "/" >>)
                         /\ ~ StartsWith(path, << "/", "/", "/" >>)
                 THEN 2
                 ELSE 1
             comps == NormComps(SplitSlash(path, 1, << >>), << >>,
                                initial_slashes)
             joined == JoinSlash(comps)
             out == IF initial_slashes = 2 THEN << "/", "/" >> \o joined
                    ELSE IF initial_slashes = 1 THEN << "/" >> \o joined
                    ELSE joined
         IN  IF out = << >> THEN << "." >> ELSE out

\* os.path.abspath(path)
Abspath(path) ==
    IF IsAbs(path) THEN Normpath(path) ELSE Normpath(PathJoin(Cwd, path))

\* len(os.path.commonprefix([a, b])) for two lists of components
RECURSIVE CommonLen(_, _)
CommonLen(a, b) ==
    IF a = << >> \/ b = << >> THEN 0
    ELSE IF a[1] /= b[1] THEN 0
    ELSE 1 + CommonLen(Tail(a), Tail(b))

\* os.path.relpath(path, start)
Relpath(path, start) ==
    LET start_list == NonEmpty(SplitSlash(Abspath(start), 1, << >>))
        path_list == NonEmpty(SplitSlash(Abspath(path), 1, << >>))
        i == CommonLen(start_list, path_list)
        rel_list == [k \in 1..(Len(start_list) - i) |-> << ".", "." >>]
                    \o DropFirst(path_list, i)
    IN  IF rel_list = << >> THEN << "." >> ELSE JoinSlash(rel_list)


(***************************************************************************)
(* HTML as BeautifulSoup sees it.  An element is a record; an attribute    *)
(* the element does not carry is NoAttr.  A page is a sequence of nodes,   *)
(* a div holds its child elements in `children`, `text` is the text of an  *)
(* element that holds only text.                                           *)
(***************************************************************************)
NoAttr == << "NoAttr" >>

Elem(name, id, class, href, src, text, children) ==
    [name |-> name, id |-> id, class |-> class, href |-> href, src |-> src,
     text |-> text, children |-> children]

ATag(href) == Elem("a", NoAttr, {}, href, NoAttr, NoAttr, << >>)
ImgTag(src) == Elem("img", NoAttr, {}, NoAttr, src, NoAttr, << >>)
SpanTag(id, class) == Elem("span", id, class, NoAttr, NoAttr, NoAttr, << >>)
PTag(text) == Elem("p", NoAttr, {}, NoAttr, NoAttr, text, << >>)
DivTag(id, class, children) ==
    Elem("div", id, class, NoAttr, NoAttr, NoAttr, children)

(***************************************************************************)
(* EXTERNAL_URI = re.compile(r"^([a-z]+://)|(mailto:)"), used with match(): *)
(* either alternative has to begin at the first character.                 *)
(***************************************************************************)
Mailto == << "m", "a", "i", "l", "t", "o", ":" >>

\* the length of the longest run of characters of `set` starting at s[i]
RECURSIVE RunLen(_, _, _)
RunLen(s, i, set) ==
    IF i > Len(s) \/ s[i] \notin set THEN 0
    ELSE 1 + RunLen(s, i + 1, set)

\* as a plausible slip: any run of letters counts as the scheme
EXTERNAL_URI_AnyCase(s) ==
    LET n == RunLen(s, 1, LowerAZ \cup UpperAZ)
    IN  \/ n >= 1 /\ StartsWith(DropFirst(s, n), << ":", "/", "/" >>)
        \/ StartsWith(s, Mailto)

\* as a plausible slip: the mailto alternative left out
EXTERNAL_URI_NoMailto(s) ==
    LET n == RunLen(s, 1, LowerAZ)
    IN  n >= 1 /\ StartsWith(DropFirst(s, n), << ":", "/", "/" >>)

\* EXTERNAL_URI.match(s) is not None
EXTERNAL_URI(s) ==
    LET n == RunLen(s, 1, LowerAZ)
    IN  \/ n >= 1 /\ StartsWith(DropFirst(s, n), << ":", "/", "/" >>)
        \/ StartsWith(s, Mailto)

(***************************************************************************)
(* tree.select(selector) for the selectors the code passes: the href of an *)
(* anchor link, "#...".  It is read as CSS: "#" and "." each begin an id   *)
(* or a class name (a CSS identifier), so "#a.b" asks for id "a" with      *)
(* class "b"; any other character is a selector syntax error, which        *)
(* select() raises.                                                        *)
(***************************************************************************)
NmStart == LowerAZ \cup UpperAZ \cup {"_"}
NmChar == NmStart \cup Digits \cup {"-"}

\* the length of the CSS identifier that begins at s[i], 0 when none does
IdentLen(s, i) ==
    LET j == IF i <= Len(s) /\ s[i] = "-" THEN i + 1 ELSE i
    IN  IF j <= Len(s) /\ s[j] \in NmStart
        THEN (j - i) + RunLen(s, j, NmChar)
        ELSE IF i + 1 <= Len(s) /\ s[i] = "-" /\ s[i + 1] = "-"
        THEN 2 + RunLen(s, i + 2, NmChar)
        ELSE 0

\* the compound selector s[i..]: [error, ids, classes]
RECURSIVE ParseSelector(_, _, _, _)
ParseSelector(s, i, ids, classes) ==
    IF i > Len(s) THEN [error |-> FALSE, ids |-> ids, classes |-> classes]
    ELSE IF s[i] \notin {"#", "."}
    THEN [error |-> TRUE, ids |-> {}, classes |-> {}]
    ELSE LET n == IdentLen(s, i + 1)
             ident == SubSeq(s, i + 1, i + n)
         IN  IF n = 0 THEN [error |-> TRUE, ids |-> {}, classes |-> {}]
             ELSE IF s[i] = "#"
             THEN ParseSelector(s, i + 1 + n, ids \cup {ident}, classes)
             ELSE ParseSelector(s, i + 1 + n, ids, classes \cup {ident})

\* as a plausible slip: the text after "#" taken whole as the id
SelectById(tree, selector) ==
    [error |-> FALSE,
     found |-> {k \in 1..Len(tree.children) :
                    tree.children[k].id = DropFirst(selector, 1)}]

\* tree.select(selector): [error, found], found the matching descendants
Select(tree, selector) ==
    LET sel == IF selector = << >>
               THEN [error |-> TRUE, ids |-> {}, classes |-> {}]
               ELSE ParseSelector(selector, 1, {}, {})
    IN  [error |-> sel.error,
         found |-> IF sel.error THEN {}
                   ELSE {k \in 1..Len(tree.children) :
                            /\ \A i \in sel.ids : tree.children[k].id = i
                            /\ sel.classes \subseteq tree.children[k].class}]

(***************************************************************************)
(* adapt_relative_urls, branch by branch.  Each branch gives the new value *)
(* of the attribute; Raise stands for the exception that leaves the call.  *)
(***************************************************************************)
Raise == << "Raise" >>

\* as a plausible slip: every anchor link is sent back to the origin page
adapt_anchor_href_Always(tree, href, root_path, source_page_path, new_page_path) ==
    Relpath(source_page_path, Dirname(new_page_path)) \o href

\* as a plausible slip: the path is taken from the origin page's directory
adapt_anchor_href_FromSource(tree, href, root_path, source_page_path, new_page_path) ==
    LET sel == Select(tree, href)
    IN  IF sel.error THEN Raise
        ELSE IF Cardinality(sel.found) = 0
        THEN Relpath(source_page_path, Dirname(source_page_path)) \o href
        ELSE href

\* href.startswith("#")
adapt_anchor_href(tree, href, root_path, source_page_path, new_page_path) ==
    LET sel == Select(tree, href)
    IN  IF sel.error THEN Raise
        ELSE IF Cardinality(sel.found) = 0
        THEN Relpath(source_page_path, Dirname(new_page_path)) \o href
        ELSE href

\* as a plausible slip: the branch missing, ".//x" resolved like any other
\* relative link, against the origin page's directory
adapt_site_root_href_AsRelative(tree, href, root_path, source_page_path, new_page_path) ==
    Relpath(PathJoin(Dirname(source_page_path), href), Dirname(new_page_path))

\* href.startswith(".//")
adapt_site_root_href(tree, href, root_path, source_page_path, new_page_path) ==
    LET abs_path == PathJoin(root_path, DropFirst(href, 3))
    IN  Relpath(abs_path, Dirname(new_page_path))

\* as a plausible slip: the link is left relative to the origin page
adapt_relative_href_Unchanged(tree, href, root_path, source_page_path, new_page_path) ==
    href

\* the last branch: any other href
adapt_relative_href(tree, href, root_path, source_page_path, new_page_path) ==
    LET abs_path == PathJoin(Dirname(source_page_path), href)
    IN  Relpath(abs_path, Dirname(new_page_path))

\* the body of the loop over tree.find_all("a")
adapt_a(tree, tag, root_path, source_page_path, new_page_path) ==
    IF tag.href = NoAttr THEN Raise
    ELSE IF EXTERNAL_URI(tag.href) THEN tag.href
    ELSE IF StartsWith(tag.href, << "#" >>)
    THEN adapt_anchor_href(tree, tag.href, root_path, source_page_path,
                           new_page_path)
    ELSE IF StartsWith(tag.href, << ".", "/", "/" >>)
    THEN adapt_site_root_href(tree, tag.href, root_path, source_page_path,
                              new_page_path)
    ELSE adapt_relative_href(tree, tag.href, root_path, source_page_path,
                             new_page_path)

\* as a plausible slip: an image is left relative to the origin page
adapt_img_Unchanged(tree, tag, root_path, source_page_path, new_page_path) ==
    IF tag.src = NoAttr THEN Raise ELSE tag.src

\* the body of the loop over tree.find_all("img")
adapt_img(tree, tag, root_path, source_page_path, new_page_path) ==
    IF tag.src = NoAttr THEN Raise
    ELSE IF ~ EXTERNAL_URI(tag.src)
    THEN Relpath(PathJoin(Dirname(source_page_path), tag.src),
                 Dirname(new_page_path))
    ELSE tag.src

\* one element as the two loops leave it
adapt_tag(tree, tag, root_path, source_page_path, new_page_path) ==
    IF tag.name = "a"
    THEN [tag EXCEPT !.href = adapt_a(tree, tag, root_path, source_page_path,
                                      new_page_path)]
    ELSE IF tag.name = "img"
    THEN [tag EXCEPT !.src = adapt_img(tree, tag, root_path, source_page_path,
                                       new_page_path)]
    ELSE tag

\* what the call leaves: it raised when an element's lookup raised, and
\* otherwise the tree holds the rewritten elements
adapt_result(tree, children) ==
    IF \E k \in 1..Len(children) :
           children[k].href = Raise \/ children[k].src = Raise
    THEN [raised |-> TRUE, tree |-> tree]
    ELSE [raised |-> FALSE, tree |-> [tree EXCEPT !.children = children]]

\* adapt_relative_urls(tree=..., root_path=..., source_page_path=...,
\* new_page_path=...): the tree as rewritten, and whether the call raised
adapt_relative_urls(tree, root_path, source_page_path, new_page_path) ==
    adapt_result(tree,
                 [k \in 1..Len(tree.children) |->
                     adapt_tag(tree, tree.children[k], root_path,
                               source_page_path, new_page_path)])

(***************************************************************************)
(* Paths of a build.  builder.get_outfilename(docname) is the build root,  *)
(* the docname and the ".html" suffix (Sphinx's StandaloneHTMLBuilder).    *)
(***************************************************************************)
\* app.outdir: Sphinx makes it absolute
Outdir == << "/", "o" >>

HtmlSuffix == << ".", "h", "t", "m", "l" >>

get_outfilename(docname) == PathJoin(Outdir, docname \o HtmlSuffix)

\* the docname "d/.../d/p" of a page n directories below the root
RECURSIVE DeepDocname(_)
DeepDocname(n) ==
    IF n = 0 THEN << "p" >> ELSE << "d", "/" >> \o DeepDocname(n - 1)

\* docnames of the pages examples come from
SourceDocnames == {DeepDocname(n) : n \in 0..MaxDepth}

\* values of example_index_dir: the default "examples", and a nested one
ExamplesDirDefault == << "e", "x", "a", "m", "p", "l", "e", "s" >>
ExampleIndexDirs == {ExamplesDirDefault, << "d", "/", "x" >>}

(***************************************************************************)
(* The inputs adapt_relative_urls is applied to: a fragment with one link  *)
(* or image whose value ranges over every string of at most MaxHrefLen     *)
(* characters of Alphabet (and a few longer ones), beside elements that    *)
(* carry ids an anchor link may point to.                                  *)
(***************************************************************************)
Alphabet == {"a", "A", ":", "/", ".", "#"}

AllStrings(n) == UNION {[1..k -> Alphabet] : k \in 0..n}

ExtraHrefs ==
    {Mailto \o << "a" >>,
     << "s", "3", ":", "/", "/", "b" >>,
     << "a", "+", "a", ":", "/", "/", "b" >>,
     << ".", ".", "/", "p", ".", "h", "t", "m", "l", "#", "a" >>}

Hrefs == AllStrings(MaxHrefLen) \cup ExtraHrefs

Links == {ATag(h) : h \in Hrefs \cup {NoAttr}}
             \cup {ImgTag(h) : h \in Hrefs \cup {NoAttr}}

TargetSeqs ==
    {<< >>,
     << SpanTag(<< "a" >>, {}) >>,
     << SpanTag(<< "a", ".", "a" >>, {}) >>,
     << SpanTag(<< "a" >>, {<< "a" >>}) >>}

IsAnchorLink(tag) ==
    tag.name = "a" /\ tag.href /= NoAttr /\ StartsWith(tag.href, << "#" >>)

EXAMPLE_SRC_DIV_CLASS ==
    << "e","x","a","m","p","l","e","-","i","n","d","e","x","-",
       "s","o","u","r","c","e" >>

\* the fragment: the wrapper div around one link and the id-carrying elements
UrlTree(link, targets) ==
    DivTag(<< "w" >>, {EXAMPLE_SRC_DIV_CLASS}, << link >> \o targets)

\* the arguments of one call
UrlCall(link, targets, source_docname, examples_dir) ==
    [tree |-> UrlTree(link, targets),
     root_path |-> Outdir,
     source_page_path |-> get_outfilename(source_docname),
     new_page_path |-> get_outfilename(examples_dir \o << "/", "e" >>)]

(***************************************************************************)
(* postprocessor.py: the pages of the build directory and the transplant   *)
(* of one example into its standalone page.  A file records who wrote its  *)
(* bytes: Sphinx's HTML writer, or BeautifulSoup's encode of the parsed    *)
(* page (line 242), which does not give back the bytes that were parsed.   *)
(***************************************************************************)
HtmlFile(form, body) == [form |-> form, body |-> body]

NoFile == HtmlFile("absent", << >>)

ExampleSrcPrefix ==
    << "e","x","a","m","p","l","e","-","s","r","c","-" >>

format_example_id_to_source_ref_id(example_id) == ExampleSrcPrefix \o example_id

EXAMPLE_CONTENT_DIV_CLASS ==
    << "e","x","a","m","p","l","e","-","i","n","d","e","x","-",
       "c","o","n","t","e","n","t" >>

\* the class name written out at lines 140 and 238 of postprocessor.py
ExampleSourceClass ==
    << "e","x","a","m","p","l","e","-","i","n","d","e","x","-",
       "s","o","u","r","c","e" >>

\* soup.find("div", id=id, class_=class): the index of the first such node of
\* the page, 0 for None
find_div(body, id, class) ==
    LET found == {i \in 1..Len(body) : /\ body[i].name = "div"
                                       /\ body[i].id = id
                                       /\ class \in body[i].class}
    IN  IF found = {} THEN 0 ELSE CHOOSE i \in found : \A j \in found : i <= j

\* an entry of the log, and an open() of a file
LogError(what, example_id) ==
    [level |-> "error", what |-> what, example_id |-> example_id]

Opened(path, mode) == [path |-> path, mode |-> mode]

\* extract_example(example_id=..., source_path=...): the wrapper div, or the
\* exception of open() or the RuntimeError of line 143
extract_example(outfiles, example_id, source_path) ==
    LET body == outfiles[source_path].body
        i == find_div(body, format_example_id_to_source_ref_id(example_id),
                      ExampleSourceClass)
    IN  IF outfiles[source_path] = NoFile \/ i = 0
        THEN [raised |-> TRUE, div |-> NoAttr]
        ELSE [raised |-> FALSE, div |-> body[i]]

\* "Warning: example {example_id} was not found."
NotFoundNotice(example_id) ==
    << "W","a","r","n","i","n","g",":"," ","e","x","a","m","p","l","e"," " >>
        \o example_id
        \o << " ","w","a","s"," ","n","o","t"," ","f","o","u","n","d","." >>

\* a BeautifulSoup object: the root of a parsed document
Document(children) ==
    Elem("[document]", NoAttr, {}, NoAttr, NoAttr, NoAttr, children)

\* a variant of make_fallback_example_div whose notice names no example
make_fallback_example_div_Anonymous(example_id) ==
    Document(<< DivTag(format_example_id_to_source_ref_id(example_id),
                       {EXAMPLE_CONTENT_DIV_CLASS},
                       << PTag(NotFoundNotice(<< >>)) >>) >>)

make_fallback_example_div(example_id) ==
    Document(<< DivTag(format_example_id_to_source_ref_id(example_id),
                       {EXAMPLE_CONTENT_DIV_CLASS},
                       << PTag(NotFoundNotice(example_id)) >>) >>)

\* a variant of replace_with that puts the node after the one at i
replace_with_InsertedAfter(body, i, node) ==
    SubSeq(body, 1, i) \o << node >> \o SubSeq(body, i + 1, Len(body))

\* target_div.replace_with(example_div)
replace_with(body, i, node) ==
    SubSeq(body, 1, i - 1) \o << node >> \o SubSeq(body, i + 1, Len(body))

\* a variant of unwrap that leaves the div around its children
unwrap_Kept(body, i) == body

\* new_div.unwrap() of the node at i; i = 0 when soup.find gave None
unwrap(body, i) ==
    IF i = 0
    THEN body
    ELSE SubSeq(body, 1, i - 1) \o body[i].children
             \o SubSeq(body, i + 1, Len(body))

\* soup.encode(...): a BeautifulSoup object inside the page is written as
\* its children
RECURSIVE encode(_)
encode(body) ==
    IF body = << >>
    THEN << >>
    ELSE (IF Head(body).name = "[document]"
          THEN Head(body).children
          ELSE << Head(body) >>) \o encode(Tail(body))

\* lines 232-242: the placeholder at i is replaced, the wrapper unwrapped and
\* the page written
write_example_page(w, example_id, example_div, html_path, i) ==
    LET replaced == replace_with(w.outfiles[html_path].body, i, example_div)
        tag_id == format_example_id_to_source_ref_id(example_id)
        new_div == find_div(replaced, tag_id, ExampleSourceClass)
    IN  [w EXCEPT !.opens = @ \cup {Opened(html_path, "r"),
                                    Opened(html_path, "w")},
                  !.outfiles[html_path] =
                      HtmlFile("bs4", encode(unwrap(replaced, new_div)))]

\* lines 214-242, entered with the outcome of adapt_relative_urls
insert_adapted(w, example_id, adapted, html_path) ==
    IF adapted.raised
    THEN [w EXCEPT !.raised = TRUE]
    ELSE IF w.outfiles[html_path] = NoFile
    THEN [w EXCEPT !.opens = @ \cup {Opened(html_path, "r")},
                   !.log = Append(@, LogError("no page", example_id))]
    ELSE IF find_div(w.outfiles[html_path].body, example_id,
                     EXAMPLE_CONTENT_DIV_CLASS) = 0
    THEN [w EXCEPT !.opens = @ \cup {Opened(html_path, "r")},
                   !.log = Append(@, LogError("no placeholder", example_id))]
    ELSE write_example_page(w, example_id, adapted.tree, html_path,
                            find_div(w.outfiles[html_path].body, example_id,
                                     EXAMPLE_CONTENT_DIV_CLASS))

insert_in_example_page(w, example_id, example_div, html_path, root_path, source_html_path) ==
    insert_adapted(w, example_id,
                   adapt_relative_urls(example_div, root_path,
                                       source_html_path, html_path),
                   html_path)

\* lines 86-97: the try around extract_example and its except branch
extract_or_fallback(w, example_id, source_html_path) ==
    LET r == extract_example(w.outfiles, example_id, source_html_path)
    IN  [w |-> [w EXCEPT !.opens = @ \cup {Opened(source_html_path, "r")},
                         !.log = IF r.raised
                                 THEN Append(@, LogError("extract", example_id))
                                 ELSE @],
         example_div |-> IF r.raised
                         THEN make_fallback_example_div(example_id)
                         ELSE r.div]

\* lines 99-105, entered with the outcome of the try
insert_extracted(x, example_id, html_path, root_path, source_html_path) ==
    insert_in_example_page(x.w, example_id, x.example_div, html_path,
                           root_path, source_html_path)

\* lines 76-105: one iteration of the loop over the cache
process_example(w, example_id, example_info) ==
    insert_extracted(
        extract_or_fallback(w, example_id,
                            get_outfilename(example_info.source_docname)),
        example_id, get_outfilename(example_info.docname), Outdir,
        get_outfilename(example_info.source_docname))

\* a variant of the guards that lacks the check of example_index_enabled
postprocess_skips_IgnoreEnabled(exception, format, enabled) ==
    exception /= "None" \/ format /= "html"

\* lines 58-70: the three early returns of postprocess_examples
postprocess_skips(exception, format, enabled) ==
    exception /= "None" \/ format /= "html" \/ enabled = FALSE

(***************************************************************************)
(* The builds postprocess_examples is applied to: MaxExamples examples in  *)
(* the cache, in any order; each origin page exists or not and holds the   *)
(* wrapper of an example or not; each standalone page is absent, or lacks  *)
(* its placeholder, or holds it.                                           *)
(***************************************************************************)
ExampleIdOf(k) == [i \in 1..k |-> "z"]

PostSourceDocnames == {DeepDocname(0), DeepDocname(1)}

PostSourceDocname(k) == DeepDocname(k % 2)

\* app.env.ext_example_index[example_id]: the keys read at lines 77 and 79
CacheEntry(k) ==
    [example_id |-> ExampleIdOf(k),
     source_docname |-> PostSourceDocname(k),
     docname |-> ExamplesDirDefault \o << "/" >> \o ExampleIdOf(k)]

CacheOrders ==
    {order \in [1..MaxExamples -> 1..MaxExamples] :
        \A i, j \in 1..MaxExamples : order[i] = order[j] => i = j}

\* what an example holds: text, a relative link and an image, or an <a>
\* element without href
FragmentKinds == {"text", "links", "nohref"}

Fragment(kind) ==
    CASE kind = "text" -> << PTag(<< "t" >>) >>
      [] kind = "links" -> << ATag(<< "q" >>), ImgTag(<< "i" >>) >>
      [] kind = "nohref" -> << ATag(NoAttr) >>

OriginKinds == {"none"} \cup FragmentKinds

\* the div the HTML writer makes of the example directive of example k
Wrapper(k, kind) ==
    DivTag(format_example_id_to_source_ref_id(ExampleIdOf(k)),
           {EXAMPLE_SRC_DIV_CLASS}, Fragment(kind))

RECURSIVE Wrappers(_, _, _)
Wrappers(docname, origin, k) ==
    IF k > MaxExamples
    THEN << >>
    ELSE (IF PostSourceDocname(k) = docname /\ origin[k] /= "none"
          THEN << Wrapper(k, origin[k]) >>
          ELSE << >>) \o Wrappers(docname, origin, k + 1)

OriginPage(docname, exists, origin) ==
    IF exists[docname]
    THEN HtmlFile("sphinx", << PTag(<< "t" >>) >> \o Wrappers(docname, origin, 1))
    ELSE NoFile

DestKinds == {"absent", "no placeholder", "placeholder"}

\* the div the HTML writer makes of the example-content directive
Placeholder(example_id) ==
    DivTag(example_id, {EXAMPLE_CONTENT_DIV_CLASS}, << >>)

DestPage(k, kind) ==
    CASE kind = "absent" -> NoFile
      [] kind = "no placeholder" -> HtmlFile("sphinx", << PTag(<< "h" >>) >>)
      [] kind = "placeholder" ->
            HtmlFile("sphinx", << PTag(<< "h" >>), Placeholder(ExampleIdOf(k)) >>)

PostPaths ==
    {get_outfilename(d) : d \in PostSourceDocnames}
        \cup {get_outfilename(CacheEntry(k).docname) : k \in 1..MaxExamples}

BuiltFiles(exists, origin, dest) ==
    [path \in PostPaths |->
        IF \E d \in PostSourceDocnames : path = get_outfilename(d)
        THEN OriginPage(CHOOSE d \in PostSourceDocnames :
                            path = get_outfilename(d), exists, origin)
        ELSE LET k == CHOOSE k \in 1..MaxExamples :
                          path = get_outfilename(CacheEntry(k).docname)
             IN  DestPage(k, dest[k])]

\* what the post-processor has read, written and logged
World(outfiles) ==
    [outfiles |-> outfiles, log |-> << >>, opens |-> {}, raised |-> FALSE]

\* the state in which build-finished calls postprocess_examples
PostCall(outfiles, cache, format, enabled) ==
    [pc |-> "call", exception |-> "None", format |-> format,
     enabled |-> enabled, ext_example_index |-> cache, pos |-> 1,
     outfiles0 |-> outfiles, w |-> World(outfiles), run |-> 1]

\* the call of the next build, which did not write the pages again: the
\* files are those the last call left
PostCallAgain(p) ==
    [PostCall(p.w.outfiles, p.ext_example_index, p.format, p.enabled)
        EXCEPT !.run = p.run + 1]

\* the state of a run in which postprocess_examples is not called
PostIdle == [PostCall([path \in {} |-> NoFile], << >>, "html", FALSE)
                EXCEPT !.pc = "idle"]

(***************************************************************************)
(* __init__.py: what setup registers with the application.                 *)
(***************************************************************************)
\* a variant of Listeners that connects the pre-processor to build-finished
Listeners_AtBuildFinished(event) ==
    IF event = "build-finished" THEN {"preprocess_examples"} ELSE {}

\* the handlers setup connects to an event with app.connect
Listeners(event) ==
    IF event = "builder-inited" THEN {"preprocess_examples"} ELSE {}

\* app.add_config_value("example_index_enabled", False, "env")
example_index_enabled_default == FALSE

\* config.example_index_enabled: the value conf.py sets, or the default
example_index_enabled(conf) ==
    IF conf = "unset" THEN example_index_enabled_default ELSE conf = "True"

(***************************************************************************)
(* Order of strings (by code point, as Python compares str) and sorting.   *)
(***************************************************************************)
CodePoints ==
    << " ", "-", "/", "0", "1", "2", "3", "4", "5", "6", "7", "8", "9",
       "A", "B", "C", "D", "E", "F", "G", "H", "I", "J", "K", "L", "M",
       "N", "O", "P", "Q", "R", "S", "T", "U", "V", "W", "X", "Y", "Z", "_",
       "a", "b", "c", "d", "e", "f", "g", "h", "i", "j", "k", "l", "m",
       "n", "o", "p", "q", "r", "s", "t", "u", "v", "w", "x", "y", "z" >>

Ord(c) == CHOOSE i \in 1..Len(CodePoints) : CodePoints[i] = c

\* s < t
RECURSIVE StrLess(_, _)
StrLess(s, t) ==
    IF t = << >> THEN FALSE
    ELSE IF s = << >> THEN TRUE
    ELSE IF s[1] = t[1] THEN StrLess(Tail(s), Tail(t))
    ELSE Ord(s[1]) < Ord(t[1])

\* the lower-case letter of an upper-case one
Lower(c) == IF c \in UpperAZ THEN CodePoints[Ord(c) + 27] ELSE c

\* identifiers.format_title_to_example_id: the title in lower case, its
\* spaces made hyphens
format_title_to_example_id(title) ==
    [i \in 1..Len(title) |-> IF title[i] = " " THEN "-" ELSE Lower(title[i])]

\* docutils' nodes.make_id on a name of letters, digits and spaces
make_id(name) ==
    [i \in 1..Len(name) |-> IF name[i] = " " THEN "-" ELSE Lower(name[i])]

\* list.sort() of pages, which compare by the title of their source: the
\* sort is stable, equal titles keep their order
RECURSIVE InsertPage(_, _)
InsertPage(sorted, page) ==
    IF sorted = << >> THEN << page >>
    ELSE IF StrLess(page.title, Head(sorted).title) THEN << page >> \o sorted
    ELSE << Head(sorted) >> \o InsertPage(Tail(sorted), page)

RECURSIVE SortPages(_)
SortPages(pages) ==
    IF pages = << >>
    THEN << >>
    ELSE InsertPage(SortPages(SubSeq(pages, 1, Len(pages) - 1)),
                    pages[Len(pages)])

\* a variant of SortNames that gives the names in descending order
RECURSIVE SortNames_Descending(_)
SortNames_Descending(names) ==
    IF names = {}
    THEN << >>
    ELSE LET last == CHOOSE n \in names :
                         \A m \in names \ {n} : StrLess(m, n)
         IN  << last >> \o SortNames_Descending(names \ {last})

\* tag_names = list(tag_set); tag_names.sort()
RECURSIVE SortNames(_)
SortNames(names) ==
    IF names = {}
    THEN << >>
    ELSE LET least == CHOOSE n \in names :
                          \A m \in names \ {n} : StrLess(n, m)
         IN  << least >> \o SortNames(names \ {least})

(***************************************************************************)
(* preprocessor.py and pages/: the source documents, the detection of      *)
(* examples and the stub pages written to the examples directory.          *)
(***************************************************************************)
Srcdir == << "/", "s" >>

RstSuffix == << ".", "r", "s", "t" >>

Docnames == {<< "p" >>, << "q" >>}

\* ExampleSource(title=..., docname=..., tags=...)
ExampleSource(title, docname, tags) ==
    [title |-> title, docname |-> docname, tags |-> tags,
     docref |-> << "/" >> \o docname,
     example_id |-> format_title_to_example_id(title)]

\* A text is held as the sequence of its lines, text.split("\n"): a line
\* holds no newline, and a text that ends in a newline has an empty last line.
\* The first line of a directive up to its argument, r"\.\. example:: "
DirectiveStart == << ".", ".", " ", "e", "x", "a", "m", "p", "l", "e", ":", ":" >>

ExampleMarker == DirectiveStart \o << " " >>

\* r":tags:"
TagsField == << ":", "t", "a", "g", "s", ":" >>

\* m.group(...) of a group that did not take part in the match
None == << "None" >>

\* str.strip() of a string whose only whitespace is the space
RECURSIVE lstrip(_)
lstrip(s) == IF s /= << >> /\ Head(s) = " " THEN lstrip(Tail(s)) ELSE s

RECURSIVE rstrip(_)
rstrip(s) ==
    IF s /= << >> /\ s[Len(s)] = " "
    THEN rstrip(SubSeq(s, 1, Len(s) - 1))
    ELSE s

\* a variant of strip that removes nothing
strip_Nothing(s) == s

strip(s) == rstrip(lstrip(s))

\* the first position of ", " in s from position k on, or 0
RECURSIVE FindCommaSpace(_, _)
FindCommaSpace(s, k) ==
    IF k >= Len(s) THEN 0
    ELSE IF s[k] = "," /\ s[k + 1] = " " THEN k
    ELSE FindCommaSpace(s, k + 1)

\* tag_option.split(", ")
RECURSIVE split(_, _)
split(s, k) ==
    IF k = 0
    THEN << s >>
    ELSE << SubSeq(s, 1, k - 1) >>
             \o split(SubSeq(s, k + 2, Len(s)),
                      FindCommaSpace(SubSeq(s, k + 2, Len(s)), 1))

\* the group tags of r"( +:tags: +(?P<tags>.+))?$" on the line that follows
\* the marker line, field being the line without its leading spaces and
\* value what follows ":tags:".  Both " +" take all the spaces they can and
\* give one back when nothing else is left for ".+".
TagsValue(line, field, value) ==
    IF /\ line /= << >> /\ Head(line) = " "
       /\ StartsWith(field, TagsField)
       /\ Len(value) >= 2 /\ Head(value) = " "
    THEN IF lstrip(value) = << >> THEN << " " >> ELSE lstrip(value)
    ELSE None

TagsGroup(line) ==
    TagsValue(line, lstrip(line),
              SubSeq(lstrip(line), Len(TagsField) + 1, Len(lstrip(line))))

\* EXAMPLE_PATTERN matches at the start of line i: the marker and a title of
\* one character at least, a newline, and then either the tags line or the
\* end of a line ("$"), which is where an empty line stands
MatchesAt(lines, i) ==
    /\ StartsWith(lines[i], ExampleMarker)
    /\ Len(lines[i]) > Len(ExampleMarker)
    /\ i < Len(lines)
    /\ (TagsGroup(lines[i + 1]) /= None \/ lines[i + 1] = << >>)

\* the match at line i: its groups, and the line it starts at
Match(lines, i) ==
    [line |-> i,
     title |-> SubSeq(lines[i], Len(ExampleMarker) + 1, Len(lines[i])),
     tags |-> TagsGroup(lines[i + 1])]

\* EXAMPLE_PATTERN.finditer(text)
MatchLines(lines) ==
    SelectSeq([i \in 1..Len(lines) |-> i], LAMBDA i : MatchesAt(lines, i))

finditer(lines) ==
    [k \in 1..Len(MatchLines(lines)) |-> Match(lines, MatchLines(lines)[k])]

\* lines 214-218
example_tags(tag_option) ==
    IF tag_option /= None
    THEN {strip(split(tag_option, FindCommaSpace(tag_option, 1))[j]) :
              j \in 1..Len(split(tag_option, FindCommaSpace(tag_option, 1)))}
    ELSE {}

\* line 220, for the match m
detected_example(docname, m) ==
    ExampleSource(m.title, docname, example_tags(m.tags))

\* line 208
no_title(m) == m.title = << >>

\* detect_examples(filepath, env) on the document docname, as a list
detect_examples(docname, text) ==
    [k \in 1..Len(finditer(text)) |->
        detected_example(docname, finditer(text)[k])]

\* a call of detect_examples before the file is read
NewDetect(docname, text) ==
    [pc |-> "call", docname |-> docname, text |-> text, matches |-> << >>,
     pos |-> 1, examples |-> << >>, log |-> << >>]

\* lines 206-220 for the match m: the warning, and the example yielded
yield_example(d, m) ==
    [d EXCEPT !.pos = @ + 1,
              !.log = IF no_title(m)
                      THEN Append(@, [level |-> "warning", line |-> m.line])
                      ELSE @,
              !.examples = Append(@, detected_example(d.docname, m))]

\* the lines of the model's documents
MarkerLine(title) == ExampleMarker \o title

TagsLine(value) == << " ", " " >> \o TagsField \o << " " >> \o value

\* the texts of the documents of a project: an empty file, a file with one
\* example, a file with two examples of which one is tagged
DocContents ==
    {<< << >> >>,
     << MarkerLine(<< "A" >>), << >> >>,
     << MarkerLine(<< "b" >>), << >>,
        MarkerLine(<< "A" >>), TagsLine(<< "g" >>), << >> >>}

\* lines 83-97: the examples of the scanned documents in the order of the scan
RECURSIVE DetectAll(_, _)
DetectAll(docs, order) ==
    IF order = << >>
    THEN << >>
    ELSE detect_examples(Head(order), docs[Head(order)])
             \o DetectAll(docs, Tail(order))

\* ExamplePage.filepath, TagPage.filepath and IndexPage.filepath
ExamplePageFilepath(examples_dir, example_id) ==
    PathJoin(examples_dir, example_id \o RstSuffix)

TagPageFilepath(examples_dir, name) ==
    PathJoin(examples_dir, << "t","a","g","s","/" >> \o make_id(name) \o RstSuffix)

IndexPageFilepath(examples_dir) ==
    PathJoin(examples_dir, << "i","n","d","e","x" >> \o RstSuffix)

\* ExamplePage(source=..., examples_dir=..., app=...): the page of a source
\* and the tag pages inserted in it so far, each held by its name
ExamplePage(source) == [tag_pages |-> << >>] @@ source

\* what a template reads of a list of example pages
PageRefs(pages) ==
    [i \in 1..Len(pages) |->
        [title |-> pages[i].title, example_id |-> pages[i].example_id,
         tag_pages |-> pages[i].tag_pages]]

\* list.sort() of tag pages, which compare by name, after an append to a
\* sorted list
RECURSIVE InsertName(_, _)
InsertName(sorted, name) ==
    IF sorted = << >> THEN << name >>
    ELSE IF StrLess(name, Head(sorted)) THEN << name >> \o sorted
    ELSE << Head(sorted) >> \o InsertName(Tail(sorted), name)

\* a variant of insert_tag_page that inserts nothing
insert_tag_page_Nothing(page, name) == page

\* ExamplePage.insert_tag_page(tag_page)
insert_tag_page(page, name) ==
    [page EXCEPT !.tag_pages = InsertName(@, name)]

\* TagPage(name=..., example_pages=..., ...): the tag page, its examples held
\* by their position in example_pages, and example_pages as the constructor
\* leaves them
TagPage(name, example_pages) ==
    [tag_page |->
        [name |-> name,
         example_pages |->
             SelectSeq([i \in 1..Len(example_pages) |-> i],
                       LAMBDA i : name \in example_pages[i].tags)],
     example_pages |->
        [i \in 1..Len(example_pages) |->
            IF name \in example_pages[i].tags
            THEN insert_tag_page(example_pages[i], name)
            ELSE example_pages[i]]]

\* the rendering of a page is held as the template and the context it is
\* rendered from (the render methods of the three page classes)
TagPageContent(tag_page, example_pages) ==
    [template |-> "example_index/tagpage.rst", tag |-> tag_page.name,
     title |-> << "E","x","a","m","p","l","e","s"," ",
                  "t","a","g","g","e","d"," " >> \o tag_page.name,
     example_pages |->
         PageRefs([i \in 1..Len(tag_page.example_pages) |->
                      example_pages[tag_page.example_pages[i]]])]

ExamplePageContent(page) ==
    [template |-> "example_index/examplepage.rst", title |-> page.title,
     example |-> page.docref, tag_pages |-> page.tag_pages]

IndexPageContent(pages) ==
    [template |-> "example_index/indexpage.rst",
     example_pages |-> PageRefs(pages)]

Rendered(filepath, content) == [filepath |-> filepath, content |-> content]

AllTags(pages) == UNION {pages[i].tags : i \in 1..Len(pages)}

\* lines 93-97: the pages of the detected examples, before line 98; detected
\* keeps the examples in the order they were detected in
NewPages(examples_dir, sources) ==
    [pc |-> "sort", examples_dir |-> examples_dir, detected |-> sources,
     example_pages |-> [i \in 1..Len(sources) |-> ExamplePage(sources[i])],
     tag_names |-> << >>, tag_pages |-> << >>, rendered |-> << >>]

\* a variant of sort_example_pages that leaves the pages in their order
sort_example_pages_Unsorted(g) ==
    [g EXCEPT !.pc = "tags",
              !.tag_names = SortNames(AllTags(g.example_pages))]

\* line 98, and lines 83-89 of generate_tag_pages
sort_example_pages(g) ==
    [g EXCEPT !.pc = "tags",
              !.example_pages = SortPages(@),
              !.tag_names = SortNames(AllTags(g.example_pages))]

\* one turn of the loop of lines 102-105: generate_tag_pages yields the next
\* tag page and it is rendered and saved
yield_tag_page(g, made) ==
    [g EXCEPT !.example_pages = made.example_pages,
              !.tag_pages = Append(@, made.tag_page),
              !.rendered =
                  Append(@, Rendered(
                      TagPageFilepath(g.examples_dir, made.tag_page.name),
                      TagPageContent(made.tag_page, made.example_pages)))]

next_tag_page(g) ==
    yield_tag_page(g, TagPage(g.tag_names[Len(g.tag_pages) + 1],
                              g.example_pages))

\* lines 107-108
render_example_pages(g) ==
    [g EXCEPT !.pc = "index",
              !.rendered = @ \o
                  [i \in 1..Len(g.example_pages) |->
                      Rendered(ExamplePageFilepath(
                                   g.examples_dir,
                                   g.example_pages[i].example_id),
                               ExamplePageContent(g.example_pages[i]))]]

\* lines 110-111
render_index_page(g) ==
    [g EXCEPT !.pc = "done",
              !.rendered = Append(@, Rendered(
                               IndexPageFilepath(g.examples_dir),
                               IndexPageContent(g.example_pages)))]

\* lines 98-111 from any point to the end
RECURSIVE RunPages(_)
RunPages(g) ==
    IF g.pc = "sort" THEN RunPages(sort_example_pages(g))
    ELSE IF g.pc = "tags" /\ Len(g.tag_pages) < Len(g.tag_names)
    THEN RunPages(next_tag_page(g))
    ELSE IF g.pc = "tags" THEN RunPages(render_example_pages(g))
    ELSE IF g.pc = "index" THEN RunPages(render_index_page(g))
    ELSE g

\* open(filepath, "w") and write, one page after the other
RECURSIVE SaveAll(_, _)
SaveAll(files, rendered) ==
    IF rendered = << >>
    THEN files
    ELSE SaveAll([f \in DOMAIN files \cup {Head(rendered).filepath} |->
                     IF f = Head(rendered).filepath
                     THEN Head(rendered).content
                     ELSE files[f]],
                 Tail(rendered))

\* the examples directory: whether it exists, and its files
Directory(exists, files) == [exists |-> exists, files |-> files]

NoFiles == [f \in {} |-> << >>]

\* what lines 76-111 leave in the application
save_pages(a, order, sources, rendered) ==
    [a EXCEPT !.exdir = Directory(TRUE, SaveAll(NoFiles, rendered)),
              !.scanned = order,
              !.written = [i \in 1..Len(rendered) |-> rendered[i].filepath],
              !.detected = {sources[i].example_id : i \in 1..Len(sources)},
              !.rundocs = [ran |-> TRUE, docs |-> a.docs]]

generate_pages(a, order, examples_dir, sources) ==
    save_pages(a, order, sources,
               RunPages(NewPages(examples_dir, sources)).rendered)

\* a variant of the guard that never skips
preprocess_skips_Never(enabled) == FALSE

\* lines 67-69: the early return of preprocess_examples
preprocess_skips(enabled) == enabled = FALSE

\* preprocess_examples(app), the documents of env.found_docs outside the
\* examples directory being iterated in the given order
preprocess_examples(a, order) ==
    IF preprocess_skips(example_index_enabled(a.conf))
    THEN a
    ELSE generate_pages(a, order, PathJoin(Srcdir, ExamplesDirDefault),
                        DetectAll(a.docs, order))

(***************************************************************************)
(* The application across builds: the configuration, the source documents, *)
(* the examples directory, and what the handlers of the latest build did.  *)
(***************************************************************************)
\* the docname of a file of the source directory
path2doc(filepath) ==
    SubSeq(Relpath(filepath, Srcdir), 1,
           Len(Relpath(filepath, Srcdir)) - Len(RstSuffix))

\* env.found_docs: the documents of the project and the stubs on disk
found_docs(a) == Docnames \cup {path2doc(f) : f \in DOMAIN a.exdir.files}

\* lines 84-89: the documents the loop does not skip
Scannable(a) ==
    {docname \in found_docs(a) :
        ~ StartsWith(docname, ExamplesDirDefault \o << "/" >>)}

\* the orders in which iterating the set env.found_docs can give them
ScanOrders(a) ==
    {order \in [1..Cardinality(Scannable(a)) -> Scannable(a)] :
        \A i, j \in DOMAIN order : order[i] = order[j] => i = j}

\* the application as sphinx-build constructs it on a project
NewApp(conf, format, docs) ==
    [phase |-> "idle", conf |-> conf, format |-> format, docs |-> docs,
     exdir |-> Directory(FALSE, NoFiles),
     before |-> Directory(FALSE, NoFiles),
     rundocs |-> [ran |-> FALSE, docs |-> docs],
     prevrun |-> [ran |-> FALSE, docs |-> docs],
     exception |-> "None", called |-> << >>,
     scanned |-> << >>, written |-> << >>, read |-> {},
     detected |-> {}, processed |-> {}, ext_example_index |-> << >>]

\* the state of a run that builds no project
AppIdle == NewApp("unset", "html", [d \in Docnames |-> << << >> >>])

\* the state of a run in which detect_examples is not called on its own
DetectIdle == [NewDetect(<< "p" >>, << << >> >>) EXCEPT !.pc = "idle"]

\* the state of a run in which no page is generated
PagesIdle ==
    [NewPages(PathJoin(Srcdir, ExamplesDirDefault), << >>) EXCEPT !.pc = "idle"]

\* a build starts: nothing is called, scanned or written yet
StartBuild(a) ==
    [a EXCEPT !.phase = "inited", !.before = a.exdir,
              !.prevrun = a.rundocs, !.exception = "None",
              !.called = << >>, !.scanned = << >>, !.written = << >>,
              !.read = {},
              !.detected = {}, !.processed = {}]

\* app.emit("builder-inited")
emit_builder_inited(a, order) ==
    IF "preprocess_examples" \in Listeners("builder-inited")
    THEN preprocess_examples(
             [a EXCEPT !.called = Append(@, "preprocess_examples")], order)
    ELSE a

\* app.emit("build-finished", exception).  No statement of the package
\* assigns env.ext_example_index.
emit_build_finished(a) ==
    IF "postprocess_examples" \in Listeners("build-finished")
    THEN [a EXCEPT
             !.called = Append(@, "postprocess_examples"),
             !.processed =
                 IF postprocess_skips(a.exception, a.format,
                                      example_index_enabled(a.conf))
                 THEN {}
                 ELSE {a.ext_example_index[i].example_id :
                           i \in 1..Len(a.ext_example_index)}]
    ELSE a

(***************************************************************************)
(* preprocessor.py, lines 76-97: the scan of env.found_docs.  The documents *)
(* the environment knows are those of the project and the stubs an earlier *)
(* build left in the examples directory, which line 78 has deleted.        *)
(***************************************************************************)
\* values of example_index_dir in conf.py that name the directory examples
ScanDirs == {ExamplesDirDefault, ExamplesDirDefault \o << "/" >>}

\* documents of the project, none of them in the directory examples
ProjectDocnames == {<< "p" >>, ExamplesDirDefault \o << "p" >>}

\* the docnames of stubs an earlier build wrote with the same configuration
StubDocnames(example_index_dir) ==
    {path2doc(ExamplePageFilepath(PathJoin(Srcdir, example_index_dir),
                                  << "a" >>)),
     path2doc(TagPageFilepath(PathJoin(Srcdir, example_index_dir),
                              << "g" >>))}

\* line 86
example_docname_prefix(example_index_dir) == example_index_dir \o << "/" >>

\* the text of a document of the project
ScanText(docname) ==
    IF docname = << "p" >>
    THEN << MarkerLine(<< "A" >>), << >> >>
    ELSE << MarkerLine(<< "b" >>), TagsLine(<< "g" >>), << >> >>

\* the scan before its first iteration: found_docs in the order the set is
\* iterated, the documents whose file can be read, and the examples
\* directory, which lines 77-79 have left empty
NewScan(example_index_dir, readable, order) ==
    [pc |-> "loop", example_index_dir |-> example_index_dir,
     found_docs |-> order, on_disk |-> readable, pos |-> 1,
     detect_calls |-> << >>, examples |-> << >>, files |-> NoFiles]

\* a variant of the loop body that saves the pages of the examples of a
\* document as soon as they are detected
scan_document_SavingAtOnce(s, docname) ==
    IF StartsWith(docname, example_docname_prefix(s.example_index_dir))
    THEN [s EXCEPT !.pos = @ + 1]
    ELSE IF docname \in s.on_disk
    THEN [s EXCEPT
             !.pos = @ + 1, !.detect_calls = Append(@, docname),
             !.examples = @ \o detect_examples(docname, ScanText(docname)),
             !.files = SaveAll(@, RunPages(NewPages(
                           PathJoin(Srcdir, s.example_index_dir),
                           detect_examples(docname, ScanText(docname))
                       )).rendered)]
    ELSE [s EXCEPT !.pc = "raise", !.detect_calls = Append(@, docname)]

\* lines 87-97 for the document at position pos: it is skipped, or
\* detect_examples is called on its file, where open() raises when the file
\* cannot be read
scan_document(s, docname) ==
    IF StartsWith(docname, example_docname_prefix(s.example_index_dir))
    THEN [s EXCEPT !.pos = @ + 1]
    ELSE IF docname \in s.on_disk
    THEN [s EXCEPT
             !.pos = @ + 1, !.detect_calls = Append(@, docname),
             !.examples = @ \o detect_examples(docname, ScanText(docname))]
    ELSE [s EXCEPT !.pc = "raise", !.detect_calls = Append(@, docname)]

\* lines 98-111, once the loop is over: the pages are rendered and saved
\* and preprocess_examples returns
scan_return(s) ==
    [s EXCEPT !.pc = "return",
              !.files = SaveAll(@, RunPages(NewPages(
                            PathJoin(Srcdir, s.example_index_dir),
                            s.examples)).rendered)]

\* the state of a run in which nothing is scanned
ScanIdle == [NewScan(ExamplesDirDefault, {}, << >>) EXCEPT !.pc = "idle"]

\* the orders in which iterating a set can give its elements
Orders(set) ==
    {order \in [1..Cardinality(set) -> set] :
        \A i, j \in DOMAIN order : order[i] = order[j] => i = j}

(***************************************************************************)
(* marker.py: the example directive and the HTML visitor of its node.      *)
(***************************************************************************)
\* identifiers.format_title_to_source_ref_id
format_title_to_source_ref_id(title) ==
    ExampleSrcPrefix \o format_title_to_example_id(title)

\* nodes.target("", "", ids=[ref_id])
TargetNode(ids) == [name |-> "target", ids |-> ids, children |-> << >>]

\* ExampleMarkerNode(rawsource=...) with the parsed content as children
ExampleMarkerNode(children) ==
    [name |-> "example_marker", ids |-> << >>, children |-> children]

\* ExampleMarkerDirective.run()
run(arguments, content) ==
    [title |-> strip(arguments[1]),
     example_id |-> format_title_to_example_id(strip(arguments[1])),
     ref_id |-> format_title_to_source_ref_id(strip(arguments[1])),
     nodes |-> << TargetNode(<< format_title_to_source_ref_id(
                                   strip(arguments[1])) >>),
                  ExampleMarkerNode(content) >>]

\* what the host does with a target that refers to nothing (line 121: "In
\* HTML, this becomes the id attribute of the container div"): its ids go to
\* the node that follows it
PropagateTargets(nodes) ==
    IF Len(nodes) >= 2 /\ nodes[1].name = "target"
    THEN << [nodes[2] EXCEPT !.ids = @ \o nodes[1].ids] >>
            \o SubSeq(nodes, 3, Len(nodes))
    ELSE nodes

\* starttag(node, "div", CLASS=...): the first of the ids of the node is the
\* id attribute
IdAttribute(node) == IF node.ids = << >> THEN NoAttr ELSE node.ids[1]

\* a variant of the visitor that gives the div the class of the placeholder
visit_example_marker_html_AsContent(node) ==
    DivTag(IdAttribute(node), {EXAMPLE_CONTENT_DIV_CLASS}, node.children)

\* visit_example_marker_html and depart_example_marker_html
visit_example_marker_html(node) ==
    DivTag(IdAttribute(node), {EXAMPLE_SRC_DIV_CLASS}, node.children)

\* the page the HTML writer makes of a document that holds a paragraph and
\* the nodes of one example directive
WrittenPage(nodes) ==
    HtmlFile("sphinx",
             << PTag(<< "t" >>) >>
                 \o [i \in 1..Len(PropagateTargets(nodes)) |->
                        visit_example_marker_html(PropagateTargets(nodes)[i])])

\* the titles given to the directive: arguments[0] with one character that
\* is not whitespace at least
TitleAlphabet == {"A", "a", "b", " "}

DirectiveArguments ==
    {t \in UNION {[1..n -> TitleAlphabet] : n \in 1..MaxTitleLen} :
        strip(t) /= << >>}

\* the directive before it runs
NewMarker(title) ==
    [pc |-> "run", arguments |-> << title >>, title |-> NoAttr,
     example_id |-> NoAttr, ref_id |-> NoAttr, nodes |-> << >>,
     outfiles |-> [path \in {get_outfilename(<< "p" >>)} |-> NoFile],
     extracted |-> [raised |-> FALSE, div |-> NoAttr]]

MarkerIdle == [NewMarker(<< "A" >>) EXCEPT !.pc = "idle"]

(***************************************************************************)
(* State.                                                                  *)
(***************************************************************************)
VARIABLES
    call,   \* the arguments of a call of adapt_relative_urls
    ret,    \* its position (call, return, raise) and the tree as it left it
    post,   \* a call of postprocess_examples: its position, its argument,
            \* the configuration, the cache, and the files and the log
    app,    \* the application across the builds of a project
    gen,    \* lines 98-111 of preprocess_examples: the position, the pages
            \* and what has been rendered and saved
    scan,   \* lines 76-111 of preprocess_examples: the position in
            \* env.found_docs, the calls of detect_examples, the examples
            \* detected and the files of the examples directory
    det,    \* a call of detect_examples: the text, the matches, the
            \* position in them, the examples yielded and the log
    mark    \* an example directive: its argument, the nodes it returns,
            \* the page written from them and what extract_example finds

vars == << call, ret, post, app, gen, scan, det, mark >>

\* the state of a run in which adapt_relative_urls is not called on its own
UrlIdleCall == UrlCall(ATag(<< >>), << >>, DeepDocname(0), ExamplesDirDefault)
UrlIdleRet == [pc |-> "idle", tree |-> UrlIdleCall.tree]

(***************************************************************************)
(* SpecUrl: adapt_relative_urls applied to each input.                     *)
(***************************************************************************)
InitUrl ==
    \E link \in Links, targets \in TargetSeqs,
       source_docname \in SourceDocnames, examples_dir \in ExampleIndexDirs :
        /\ targets = << >> \/ IsAnchorLink(link)
        /\ call = UrlCall(link, targets, source_docname, examples_dir)
        /\ ret = [pc |-> "call", tree |-> call.tree]
        /\ post = PostIdle
        /\ app = AppIdle
        /\ gen = PagesIdle
        /\ scan = ScanIdle
        /\ det = DetectIdle
        /\ mark = MarkerIdle

\* the position the call ends in
UrlReturn(r) ==
    [pc |-> IF r.raised THEN "raise" ELSE "return", tree |-> r.tree]

AdaptRelativeUrls ==
    /\ ret.pc = "call"
    /\ ret' = UrlReturn(adapt_relative_urls(call.tree, call.root_path,
                                            call.source_page_path,
                                            call.new_page_path))
    /\ UNCHANGED << call, post, app, gen, scan, det, mark >>

NextUrl == AdaptRelativeUrls

SpecUrl == InitUrl /\ [][NextUrl]_vars

(***************************************************************************)
(* SpecPost: postprocess_examples called on each build, one action for the *)
(* entry and its early returns, one for each iteration of the loop, one    *)
(* for the return at the end of the loop, and one for the call of the next *)
(* build on the files this one left.                                       *)
(***************************************************************************)
InitPost ==
    \E exists \in [PostSourceDocnames -> BOOLEAN],
       origin \in [1..MaxExamples -> OriginKinds],
       dest \in [1..MaxExamples -> DestKinds],
       order \in CacheOrders,
       format \in {"html", "latex"}, enabled \in BOOLEAN :
        /\ post = PostCall(BuiltFiles(exists, origin, dest),
                           [i \in 1..MaxExamples |-> CacheEntry(order[i])],
                           format, enabled)
        /\ call = UrlIdleCall
        /\ ret = UrlIdleRet
        /\ app = AppIdle
        /\ gen = PagesIdle
        /\ scan = ScanIdle
        /\ det = DetectIdle
        /\ mark = MarkerIdle

PostprocessExamples ==
    /\ post.pc = "call"
    /\ \E exception \in {"None", "Exception"} :
          post' = [post EXCEPT
                      !.exception = exception,
                      !.pc = IF postprocess_skips(exception, post.format,
                                                  post.enabled)
                             THEN "return" ELSE "loop"]
    /\ UNCHANGED << call, ret, app, gen, scan, det, mark >>

\* where the loop stands after an iteration: the exception of the iteration
\* leaves the function, or the next entry is taken
AfterExample(p) ==
    IF p.w.raised THEN [p EXCEPT !.pc = "raise"] ELSE [p EXCEPT !.pos = @ + 1]

ProcessExample ==
    /\ post.pc = "loop"
    /\ post.pos <= Len(post.ext_example_index)
    /\ post' = AfterExample(
                    [post EXCEPT !.w = process_example(
                        @, post.ext_example_index[post.pos].example_id,
                        post.ext_example_index[post.pos])])
    /\ UNCHANGED << call, ret, app, gen, scan, det, mark >>

PostprocessReturn ==
    /\ post.pc = "loop"
    /\ post.pos > Len(post.ext_example_index)
    /\ post' = [post EXCEPT !.pc = "return"]
    /\ UNCHANGED << call, ret, app, gen, scan, det, mark >>

\* the project is built again, after a build that ended or failed
PostprocessAgain ==
    /\ post.pc \in {"return", "raise"}
    /\ post.run < MaxRuns
    /\ post' = PostCallAgain(post)
    /\ UNCHANGED << call, ret, app, gen, scan, det, mark >>

NextPost ==
    \/ PostprocessExamples
    \/ ProcessExample
    \/ PostprocessReturn
    \/ PostprocessAgain

SpecPost == InitPost /\ [][NextPost]_vars

(***************************************************************************)
(* SpecPages: lines 98-111 of preprocess_examples on each list of detected *)
(* examples, one action for the sort, one for each tag page the generator  *)
(* yields, one for the example pages and one for the index page.           *)
(***************************************************************************)
PageTitles == {<< "A" >>, << "a" >>, << "I", "n", "d", "e", "x" >>}

PageTags == {<< "G" >>, << "g" >>, << "h" >>}

\* the document an example of the list was detected in: the first one in p,
\* the others in q
DocnameOf(i) == IF i = 1 THEN << "p" >> ELSE << "q" >>

\* the lists of examples the scan can have detected, p being scanned first
DetectedSources ==
    UNION {{[i \in 1..n |->
                ExampleSource(found[i].title, DocnameOf(i), found[i].tags)] :
               found \in [1..n -> [title : PageTitles,
                                   tags : SUBSET PageTags]]} :
              n \in 0..MaxSources}

InitPages ==
    \E sources \in DetectedSources :
        /\ gen = NewPages(PathJoin(Srcdir, ExamplesDirDefault), sources)
        /\ call = UrlIdleCall
        /\ ret = UrlIdleRet
        /\ post = PostIdle
        /\ app = AppIdle
        /\ scan = ScanIdle
        /\ det = DetectIdle
        /\ mark = MarkerIdle

SortExamplePages ==
    /\ gen.pc = "sort"
    /\ gen' = sort_example_pages(gen)
    /\ UNCHANGED << call, ret, post, app, scan, det, mark >>

YieldTagPage ==
    /\ gen.pc = "tags"
    /\ Len(gen.tag_pages) < Len(gen.tag_names)
    /\ gen' = next_tag_page(gen)
    /\ UNCHANGED << call, ret, post, app, scan, det, mark >>

RenderExamplePages ==
    /\ gen.pc = "tags"
    /\ Len(gen.tag_pages) = Len(gen.tag_names)
    /\ gen' = render_example_pages(gen)
    /\ UNCHANGED << call, ret, post, app, scan, det, mark >>

RenderIndexPage ==
    /\ gen.pc = "index"
    /\ gen' = render_index_page(gen)
    /\ UNCHANGED << call, ret, post, app, scan, det, mark >>

NextPages ==
    \/ SortExamplePages
    \/ YieldTagPage
    \/ RenderExamplePages
    \/ RenderIndexPage

SpecPages == InitPages /\ [][NextPages]_vars

(***************************************************************************)
(* SpecScan: lines 76-111 of preprocess_examples on each set of found      *)
(* documents, one action for each iteration of the loop and one for what   *)
(* follows the loop.                                                       *)
(***************************************************************************)
InitScan ==
    \E example_index_dir \in ScanDirs, docs \in SUBSET ProjectDocnames :
        \E stubs \in SUBSET StubDocnames(example_index_dir),
           readable \in SUBSET docs :
            \E order \in Orders(docs \cup stubs) :
                /\ scan = NewScan(example_index_dir, readable, order)
                /\ call = UrlIdleCall
                /\ ret = UrlIdleRet
                /\ post = PostIdle
                /\ app = AppIdle
                /\ gen = PagesIdle
                /\ det = DetectIdle
                /\ mark = MarkerIdle

ScanDocument ==
    /\ scan.pc = "loop"
    /\ scan.pos <= Len(scan.found_docs)
    /\ scan' = scan_document(scan, scan.found_docs[scan.pos])
    /\ UNCHANGED << call, ret, post, app, gen, det, mark >>

ScanReturn ==
    /\ scan.pc = "loop"
    /\ scan.pos > Len(scan.found_docs)
    /\ scan' = scan_return(scan)
    /\ UNCHANGED << call, ret, post, app, gen, det, mark >>

NextScan == ScanDocument \/ ScanReturn

SpecScan == InitScan /\ [][NextScan]_vars

(***************************************************************************)
(* SpecDetect: detect_examples called on each text, one action for the     *)
(* read and the search, one for each example the generator yields, one for *)
(* its end.                                                                *)
(***************************************************************************)
DetectLines ==
    {<< >>,
     << " ", " " >>,
     << " ", " ", "c" >>,
     << ".", ".", " ", "n", ":", ":" >>,
     ExampleMarker,
     MarkerLine(<< " " >>),
     MarkerLine(<< "A" >>),
     MarkerLine(<< " ", "b", " " >>),
     << " ", " " >> \o MarkerLine(<< "A" >>),
     TagsLine(<< "g", ",", " ", "h" >>),
     TagsLine(<< " ", "h", ",", " ", " ", "g", ",", "G", " " >>)}

DetectTexts == UNION {[1..n -> DetectLines] : n \in 1..MaxLines}

InitDetect ==
    \E text \in DetectTexts :
        /\ det = NewDetect(<< "p" >>, text)
        /\ mark = MarkerIdle
        /\ call = UrlIdleCall
        /\ ret = UrlIdleRet
        /\ post = PostIdle
        /\ app = AppIdle
        /\ gen = PagesIdle
        /\ scan = ScanIdle

DetectOpen ==
    /\ det.pc = "call"
    /\ det' = [det EXCEPT !.pc = "loop", !.matches = finditer(det.text)]
    /\ UNCHANGED << call, ret, post, app, gen, scan, mark >>

DetectYield ==
    /\ det.pc = "loop"
    /\ det.pos <= Len(det.matches)
    /\ det' = yield_example(det, det.matches[det.pos])
    /\ UNCHANGED << call, ret, post, app, gen, scan, mark >>

DetectReturn ==
    /\ det.pc = "loop"
    /\ det.pos > Len(det.matches)
    /\ det' = [det EXCEPT !.pc = "return"]
    /\ UNCHANGED << call, ret, post, app, gen, scan, mark >>

NextDetect == DetectOpen \/ DetectYield \/ DetectReturn

SpecDetect == InitDetect /\ [][NextDetect]_vars

(***************************************************************************)
(* SpecMarker: an example directive on each title, one action for run(),   *)
(* one for the writing of the page and one for extract_example on it.      *)
(***************************************************************************)
InitMarker ==
    \E title \in DirectiveArguments :
        /\ mark = NewMarker(title)
        /\ call = UrlIdleCall
        /\ ret = UrlIdleRet
        /\ post = PostIdle
        /\ app = AppIdle
        /\ gen = PagesIdle
        /\ scan = ScanIdle
        /\ det = DetectIdle

DirectiveRun ==
    /\ mark.pc = "run"
    /\ mark' = [pc |-> "nodes"]
                   @@ run(mark.arguments, Fragment("text")) @@ mark
    /\ UNCHANGED << call, ret, post, app, gen, scan, det >>

WritePage ==
    /\ mark.pc = "nodes"
    /\ mark' = [mark EXCEPT
                   !.pc = "html",
                   !.outfiles[get_outfilename(<< "p" >>)] =
                       WrittenPage(mark.nodes)]
    /\ UNCHANGED << call, ret, post, app, gen, scan, det >>

ExtractExample ==
    /\ mark.pc = "html"
    /\ mark' = [mark EXCEPT
                   !.pc = "extracted",
                   !.extracted = extract_example(
                       mark.outfiles, format_title_to_example_id(mark.title),
                       get_outfilename(<< "p" >>))]
    /\ UNCHANGED << call, ret, post, app, gen, scan, det >>

NextMarker == DirectiveRun \/ WritePage \/ ExtractExample

SpecMarker == InitMarker /\ [][NextMarker]_vars

(***************************************************************************)
(* Spec: the builds of a project.  Between builds the user edits a         *)
(* document or conf.py; a build emits builder-inited, runs the main build  *)
(* (which may raise) and emits build-finished.                             *)
(***************************************************************************)
Init ==
    \E conf \in {"unset", "True", "False"}, format \in {"html", "latex"},
       docs \in [Docnames -> DocContents] :
        /\ app = NewApp(conf, format, docs)
        /\ call = UrlIdleCall
        /\ ret = UrlIdleRet
        /\ post = PostIdle
        /\ gen = PagesIdle
        /\ scan = ScanIdle
        /\ det = DetectIdle
        /\ mark = MarkerIdle

Between == app.phase \in {"idle", "finished"}

EditSource ==
    /\ Between
    /\ \E docname \in Docnames, text \in DocContents :
          /\ text /= app.docs[docname]
          /\ app' = [app EXCEPT !.phase = "idle", !.docs[docname] = text]
    /\ UNCHANGED << call, ret, post, gen, scan, det, mark >>

Reconfigure ==
    /\ Between
    /\ \E conf \in {"unset", "True", "False"} :
          /\ conf /= app.conf
          /\ app' = [app EXCEPT !.phase = "idle", !.conf = conf]
    /\ UNCHANGED << call, ret, post, gen, scan, det, mark >>

BuilderInited ==
    /\ Between
    /\ \E order \in ScanOrders(app) :
          app' = emit_builder_inited(StartBuild(app), order)
    /\ UNCHANGED << call, ret, post, gen, scan, det, mark >>

MainBuild ==
    /\ app.phase = "inited"
    /\ \E exception \in {"None", "Exception"} :
          app' = [app EXCEPT !.phase = "built", !.exception = exception,
                             !.read = found_docs(app)]
    /\ UNCHANGED << call, ret, post, gen, scan, det, mark >>

BuildFinished ==
    /\ app.phase = "built"
    /\ app' = emit_build_finished([app EXCEPT !.phase = "finished"])
    /\ UNCHANGED << call, ret, post, gen, scan, det, mark >>

Next ==
    \/ EditSource
    \/ Reconfigure
    \/ BuilderInited
    \/ MainBuild
    \/ BuildFinished

Spec == Init /\ [][Next]_vars


(***************************************************************************)
(* What a URL value means, for stating the claims about the rewriting.     *)
(***************************************************************************)
\* the components of the normalised path
PathComps(p) == NonEmpty(SplitSlash(Normpath(p), 1, << >>))

\* the file a relative value denotes on the page at page_path
Resolve(page_path, value) == PathComps(PathJoin(Dirname(page_path), value))

\* a URI scheme (a letter, then letters, digits, "+", "-", ".") and "://"
IsAbsoluteUri(v) ==
    LET n == IF v /= << >> /\ v[1] \in LowerAZ \cup UpperAZ
             THEN RunLen(v, 1, LowerAZ \cup UpperAZ \cup Digits
                                   \cup {"+", "-", "."})
             ELSE 0
    IN  n >= 1 /\ StartsWith(DropFirst(v, n), << ":", "/", "/" >>)

IsExternalValue(v) == IsAbsoluteUri(v) \/ StartsWith(v, Mailto)

\* a relative path: no scheme, not rooted
IsRelativePathValue(v) == v /= NoAttr /\ ~ IsExternalValue(v) /\ ~ IsAbs(v)

\* "#id" with id an HTML ID token: a letter, then letters, digits, "-",
\* "_", ":", "."
IsAnchorRef(v) ==
    /\ v /= NoAttr
    /\ Len(v) >= 2
    /\ v[1] = "#"
    /\ v[2] \in LowerAZ \cup UpperAZ
    /\ RunLen(v, 2, LowerAZ \cup UpperAZ \cup Digits \cup {"-", "_", ":", "."})
           = Len(v) - 1

\* an element of the fragment carries this id
HasIdInFragment(tree, id) ==
    \E k \in 1..Len(tree.children) : tree.children[k].id = id

\* new is rel followed by old, rel a relative path from the page at
\* from_page to the file to_file
IsLinkBackTo(new, old, from_page, to_file) ==
    /\ Len(new) > Len(old)
    /\ DropFirst(new, Len(new) - Len(old)) = old
    /\ LET rel == SubSeq(new, 1, Len(new) - Len(old))
       IN  ~ IsAbs(rel) /\ Resolve(from_page, rel) = PathComps(to_file)

UrlTags == 1..Len(call.tree.children)

(***************************************************************************)
(* C2.  Once adapt_relative_urls has returned, every <a href> that is a    *)
(* relative path (no scheme, not rooted, not starting with "#" or ".//")   *)
(* and every <img src> that is a relative path has a new, relative value   *)
(* that denotes, from the destination page's directory, the file the old   *)
(* value denoted from the origin page's directory.                         *)
(***************************************************************************)
C2_RelativeUrlDenotesSameFile ==
    ret.pc = "return" =>
        \A k \in UrlTags :
            LET old == call.tree.children[k]
                new == ret.tree.children[k]
            IN  /\ ( /\ old.name = "a"
                     /\ IsRelativePathValue(old.href)
                     /\ ~ StartsWith(old.href, << "#" >>)
                     /\ ~ StartsWith(old.href, << ".", "/", "/" >>) )
                   => /\ ~ IsAbs(new.href)
                      /\ Resolve(call.new_page_path, new.href)
                             = Resolve(call.source_page_path, old.href)
                /\ (old.name = "img" /\ IsRelativePathValue(old.src))
                   => /\ ~ IsAbs(new.src)
                      /\ Resolve(call.new_page_path, new.src)
                             = Resolve(call.source_page_path, old.src)

\* a link "../a" of a page in a subdirectory has been rewritten to a
\* different value
C2_Witness ==
    /\ ret.pc = "return"
    /\ call.tree.children[1].name = "a"
    /\ call.tree.children[1].href = << ".", ".", "/", "a" >>
    /\ call.source_page_path = get_outfilename(DeepDocname(1))
    /\ ret.tree.children[1].href /= call.tree.children[1].href

(***************************************************************************)
(* C3.  For every <a> whose href is an anchor reference "#id": when an     *)
(* element of the fragment carries that id, the call returns with the href *)
(* unchanged; otherwise it returns with the href the relative path from    *)
(* the destination page's directory to the origin page file, then "#id".   *)
(***************************************************************************)
C3_AnchorLinks ==
    ret.pc /= "call" =>
        \A k \in UrlTags :
            LET old == call.tree.children[k]
                new == ret.tree.children[k]
            IN  (old.name = "a" /\ IsAnchorRef(old.href))
                => /\ ret.pc = "return"
                   /\ IF HasIdInFragment(call.tree, DropFirst(old.href, 1))
                      THEN new.href = old.href
                      ELSE IsLinkBackTo(new.href, old.href,
                                        call.new_page_path,
                                        call.source_page_path)

(***************************************************************************)
(* C4.  Every href and every img src that is an absolute URI (a scheme     *)
(* followed by "://", whatever the scheme) or a mailto: link is left       *)
(* unchanged by adapt_relative_urls.                                       *)
(***************************************************************************)
C4_ExternalUntouched ==
    ret.pc /= "call" =>
        \A k \in UrlTags :
            LET old == call.tree.children[k]
                new == ret.tree.children[k]
            IN  /\ ( /\ old.name = "a"
                     /\ old.href /= NoAttr
                     /\ IsExternalValue(old.href) )
                   => (ret.pc = "return" /\ new.href = old.href)
                /\ ( /\ old.name = "img"
                     /\ old.src /= NoAttr
                     /\ IsExternalValue(old.src) )
                   => (ret.pc = "return" /\ new.src = old.src)

(***************************************************************************)
(* C5.  An href that begins with ".//" is rewritten to a relative path     *)
(* that denotes, from the destination page's directory, the build root     *)
(* joined with the remainder after the marker; the new value is the same   *)
(* whichever page the fragment comes from.                                 *)
(***************************************************************************)
C5_SiteRootLinks ==
    ret.pc /= "call" =>
        \A k \in UrlTags :
            LET old == call.tree.children[k]
                new == ret.tree.children[k]
            IN  ( /\ old.name = "a"
                  /\ old.href /= NoAttr
                  /\ StartsWith(old.href, << ".", "/", "/" >>) )
                => /\ ret.pc = "return"
                   /\ ~ IsAbs(new.href)
                   /\ Resolve(call.new_page_path, new.href)
                          = PathComps(PathJoin(call.root_path,
                                               DropFirst(old.href, 3)))
                   /\ \A d \in SourceDocnames :
                          adapt_a(call.tree, old, call.root_path,
                                  get_outfilename(d), call.new_page_path)
                              = new.href

\* ".//a" in a fragment of a page in a subdirectory has been rewritten
C5_Witness ==
    /\ ret.pc = "return"
    /\ call.tree.children[1].name = "a"
    /\ call.tree.children[1].href = << ".", "/", "/", "a" >>
    /\ call.source_page_path = get_outfilename(DeepDocname(1))
    /\ ret.tree.children[1].href /= call.tree.children[1].href


(***************************************************************************)
(* What a call of postprocess_examples met and left, for stating the       *)
(* claims about it.  What a page held before the call is read from         *)
(* post.outfiles0, what the call left from post.w.                         *)
(***************************************************************************)
PostCacheLen == Len(post.ext_example_index)

SourcePathOf(k) == get_outfilename(post.ext_example_index[k].source_docname)

DestPathOf(k) == get_outfilename(post.ext_example_index[k].docname)

PostExampleId(k) == post.ext_example_index[k].example_id

\* the iteration of entry k raised out of the loop
RaisedAt(k) == post.pc = "raise" /\ post.pos = k

\* the loop took entry k: the iteration ended, or it raised
Entered(k) == k < post.pos \/ RaisedAt(k)

\* the origin page of entry k cannot be read, or holds no wrapper of it
WrapperMissing(k) ==
    \/ post.outfiles0[SourcePathOf(k)] = NoFile
    \/ \A i \in 1..Len(post.outfiles0[SourcePathOf(k)].body) :
          LET node == post.outfiles0[SourcePathOf(k)].body[i]
          IN  ~ (/\ node.name = "div"
                 /\ node.id = ExampleSrcPrefix \o PostExampleId(k)
                 /\ EXAMPLE_SRC_DIV_CLASS \in node.class)

\* the standalone page of entry k held the placeholder of the example
HadPlaceholder(k) ==
    \E i \in 1..Len(post.outfiles0[DestPathOf(k)].body) :
        LET node == post.outfiles0[DestPathOf(k)].body[i]
        IN  /\ node.name = "div"
            /\ node.id = PostExampleId(k)
            /\ EXAMPLE_CONTENT_DIV_CLASS \in node.class

\* s occurs in text
Occurs(s, text) ==
    \E a \in 1..(Len(text) - Len(s) + 1) :
        SubSeq(text, a, a + Len(s) - 1) = s

\* the standalone page of entry k holds a div with a notice naming the example
HoldsFallback(k) ==
    \E i \in 1..Len(post.w.outfiles[DestPathOf(k)].body) :
        LET node == post.w.outfiles[DestPathOf(k)].body[i]
        IN  /\ node.name = "div"
            /\ \E j \in 1..Len(node.children) :
                  /\ node.children[j].text /= NoAttr
                  /\ Occurs(PostExampleId(k), node.children[j].text)

DestUnchanged(k) ==
    post.w.outfiles[DestPathOf(k)] = post.outfiles0[DestPathOf(k)]

Logged(what, k) ==
    \E n \in 1..Len(post.w.log) :
        post.w.log[n] = LogError(what, PostExampleId(k))

C7_MissingPlaceholderSkipped ==
    \A k \in 1..PostCacheLen :
        (/\ Entered(k)
         /\ post.outfiles0[DestPathOf(k)] /= NoFile
         /\ ~ HadPlaceholder(k)) =>
            /\ Logged("no placeholder", k)
            /\ DestUnchanged(k)
            /\ ~ RaisedAt(k)

(***************************************************************************)
(* C8.  postprocess_examples called with an exception, or with a builder   *)
(* whose format is not "html", or with example_index_enabled false,        *)
(* returns at once: it opens no file for reading or writing, logs no       *)
(* error and leaves every file of the build as it was.                     *)
(***************************************************************************)
C8_GuardedNoOp ==
    (/\ post.pc \notin {"idle", "call"}
     /\ \/ post.exception /= "None"
        \/ post.format /= "html"
        \/ post.enabled = FALSE) =>
        /\ post.pc = "return"
        /\ post.pos = 1
        /\ post.w.opens = {}
        /\ post.w.log = << >>
        /\ post.w.outfiles = post.outfiles0

\* a successful html build with the extension disabled, where every example
\* has its wrapper and every standalone page its placeholder
C8_Witness ==
    /\ post.pc = "return"
    /\ post.exception = "None"
    /\ post.format = "html"
    /\ post.enabled = FALSE
    /\ PostCacheLen >= 1
    /\ \A k \in 1..PostCacheLen : ~ WrapperMissing(k) /\ HadPlaceholder(k)
    /\ post.w.opens = {}


(***************************************************************************)
(* What a build did, for stating the claims about the builds of a project. *)
(***************************************************************************)
Called(handler) == \E i \in 1..Len(app.called) : app.called[i] = handler

\* the build has emitted builder-inited, and nothing was edited since
InBuild == app.phase \in {"inited", "built", "finished"}

\* example_index_enabled is True in conf.py
EnabledInConf == app.conf = "True"

HasDirectives ==
    \E docname \in Docnames : finditer(app.docs[docname]) /= << >>

(***************************************************************************)
(* C1.  In an html build that succeeds with example_index_enabled true,    *)
(* postprocess_examples is called after the main build and the example ids *)
(* it iterates are those of the examples preprocess_examples detected.     *)
(***************************************************************************)
C1_TransplantRuns ==
    (/\ app.phase = "finished"
     /\ app.exception = "None"
     /\ app.format = "html"
     /\ EnabledInConf) =>
        /\ Called("postprocess_examples")
        /\ app.processed = app.detected

(***************************************************************************)
(* C9.  With example_index_enabled false, which is its value when conf.py  *)
(* does not set it, preprocess_examples is called and returns at once: the *)
(* examples directory and its files are as they were before the build, no  *)
(* document is scanned and no file written.                                *)
(***************************************************************************)
C9_DisabledPreprocessNoOp ==
    (InBuild /\ ~ EnabledInConf) =>
        /\ Called("preprocess_examples")
        /\ app.exdir = app.before
        /\ app.scanned = << >>
        /\ app.written = << >>

\* a build with the option left unset, on a project whose documents hold
\* examples and whose examples directory holds the stubs of an earlier build
C9_Witness ==
    /\ app.phase = "inited"
    /\ app.conf = "unset"
    /\ Called("preprocess_examples")
    /\ HasDirectives
    /\ app.exdir.exists
    /\ DOMAIN app.exdir.files /= {}
    /\ app.exdir = app.before

(***************************************************************************)
(* C10.  After an enabled preprocessing run the files of the examples      *)
(* directory are exactly the files that run wrote, and when the documents  *)
(* are those of the enabled run before it, the directory holds the same    *)
(* files with the same content as that run left.                           *)
(***************************************************************************)
C10_RegeneratedFromScratch ==
    (InBuild /\ EnabledInConf) =>
        /\ DOMAIN app.exdir.files =
               {app.written[i] : i \in 1..Len(app.written)}
        /\ (app.prevrun.ran /\ app.prevrun.docs = app.docs) =>
               app.exdir.files = app.before.files

(***************************************************************************)
(* Claims on the pages generated by preprocess_examples (SpecPages).       *)
(***************************************************************************)
\* the run of lines 98-111 has returned
PagesDone == gen.pc = "done"

\* the files of the examples directory once the pages are saved
SavedFiles == SaveAll(NoFiles, gen.rendered)

\* the saved files rendered from a template
FilesOf(template) ==
    {f \in DOMAIN SavedFiles : SavedFiles[f].template = template}

\* the positions in gen.rendered of two pages saved to one path
SamePath(i, j) ==
    i /= j /\ gen.rendered[i].filepath = gen.rendered[j].filepath

(***************************************************************************)
(* C11: after an enabled preprocessing run the examples directory holds    *)
(* one distinct stub file per example page, one distinct stub file per tag *)
(* page and exactly one index.rst: as many example stub files as examples  *)
(* detected, and no two pages written to the same path.                    *)
(***************************************************************************)
C11_OneFilePerPage ==
    PagesDone =>
        /\ \A i, j \in 1..Len(gen.rendered) : ~ SamePath(i, j)
        /\ Cardinality(FilesOf("example_index/examplepage.rst"))
               = Len(gen.example_pages)
        /\ Cardinality(FilesOf("example_index/tagpage.rst"))
               = Len(gen.tag_pages)
        /\ Cardinality(FilesOf("example_index/indexpage.rst")) = 1

\* two of the detected examples have titles that give the same example id
IdClash ==
    \E i, j \in 1..Len(gen.example_pages) :
        i /= j /\ gen.example_pages[i].example_id
                      = gen.example_pages[j].example_id

\* the page saved at position i of gen.rendered is an example page
IsExampleStub(i) ==
    gen.rendered[i].content.template = "example_index/examplepage.rst"

(***************************************************************************)
(* C12: when two detected examples have titles that give the same example  *)
(* id, the run does not end normally (the build fails with a diagnostic)   *)
(* and the stub of neither example is written over the other's.            *)
(***************************************************************************)
C12_IdClashFails ==
    IdClash =>
        /\ ~ PagesDone
        /\ \A i, j \in 1..Len(gen.rendered) :
              IsExampleStub(i) /\ IsExampleStub(j) => ~ SamePath(i, j)

(***************************************************************************)
(* Claims on the scan of the found documents (SpecScan).                   *)
(***************************************************************************)
\* the directory of the file of a document, as path components
DocDirComps(docname) ==
    PathComps(Dirname(PathJoin(Srcdir, docname \o RstSuffix)))

\* the examples directory of the scan, as path components
ExamplesDirComps == PathComps(PathJoin(Srcdir, scan.example_index_dir))

\* the file of the document lies in the examples directory or below it
InExamplesDir(docname) ==
    /\ Len(DocDirComps(docname)) >= Len(ExamplesDirComps)
    /\ SubSeq(DocDirComps(docname), 1, Len(ExamplesDirComps))
           = ExamplesDirComps

DetectCalledOn(docname) ==
    \E i \in 1..Len(scan.detect_calls) : scan.detect_calls[i] = docname

(***************************************************************************)
(* C13: detect_examples is called on no document inside the examples       *)
(* directory, and when the scan is over it has been called on every found  *)
(* document outside of it.                                                 *)
(***************************************************************************)
C13_ScansOutsideOnly ==
    /\ \A i \in 1..Len(scan.detect_calls) :
          ~ InExamplesDir(scan.detect_calls[i])
    /\ scan.pc = "return" =>
          \A i \in 1..Len(scan.found_docs) :
              ~ InExamplesDir(scan.found_docs[i])
                  => DetectCalledOn(scan.found_docs[i])

(***************************************************************************)
(* Claims on detect_examples (SpecDetect).  The markers of a text are read *)
(* here as docutils reads them: a line is blank when it holds only         *)
(* whitespace, the title of a marker is its argument without surrounding   *)
(* whitespace, and a marker may stand indented after a blank line.         *)
(***************************************************************************)
DetectDone == det.pc = "return"

\* s without the spaces at its two ends
Trimmed(s) ==
    IF \A i \in 1..Len(s) : s[i] = " "
    THEN << >>
    ELSE SubSeq(s,
                CHOOSE a \in 1..Len(s) :
                    s[a] /= " " /\ \A i \in 1..(a - 1) : s[i] = " ",
                CHOOSE b \in 1..Len(s) :
                    s[b] /= " " /\ \A i \in (b + 1)..Len(s) : s[i] = " ")

IsBlank(line) == Trimmed(line) = << >>

Indented(line) == line /= << >> /\ line[1] = " "

\* the line is the first line of an example directive
IsMarker(line) ==
    /\ StartsWith(Trimmed(line), DirectiveStart)
    /\ Trimmed(line) /= DirectiveStart => Trimmed(line)[13] = " "

\* the title argument of the directive (marker.py, line 94)
MarkerTitle(line) ==
    Trimmed(SubSeq(Trimmed(line), Len(DirectiveStart) + 1,
                   Len(Trimmed(line))))

\* the line is the option tags of the directive above it
IsTagsOption(line) ==
    Indented(line) /\ StartsWith(Trimmed(line), TagsField \o << " " >>)

\* the value of the option
OptionValue(line) ==
    SubSeq(Trimmed(line), Len(TagsField) + 2, Len(Trimmed(line)))

\* the marker at line i has a title and its first block is closed by a blank
\* line or by the end of the text
WellFormedAt(i) ==
    /\ IsMarker(det.text[i])
    /\ MarkerTitle(det.text[i]) /= << >>
    /\ Indented(det.text[i]) => (i = 1 \/ IsBlank(det.text[i - 1]))
    /\ i < Len(det.text)
    /\ \/ IsBlank(det.text[i + 1])
       \/ /\ IsTagsOption(det.text[i + 1])
          /\ i + 1 = Len(det.text) \/ IsBlank(det.text[i + 2])

\* the lines of the well-formed markers, in the order of the text
WellFormedLines ==
    SelectSeq([i \in 1..Len(det.text) |-> i], WellFormedAt)

\* every marker of the text is well formed
AllWellFormed ==
    \A i \in 1..Len(det.text) : IsMarker(det.text[i]) => WellFormedAt(i)

\* the line of the marker the k-th example was yielded for
MarkerLineOf(k) == det.matches[k].line

(***************************************************************************)
(* C14: on a text whose markers are all well formed detect_examples yields *)
(* one ExampleSource per marker, in the order of the markers, each with    *)
(* the docname of the document and the example id of its title.            *)
(***************************************************************************)
C14_OneExamplePerMarker ==
    (DetectDone /\ AllWellFormed) =>
        /\ Len(det.examples) = Len(WellFormedLines)
        /\ \A k \in 1..Len(det.examples) :
              /\ MarkerLineOf(k) = WellFormedLines[k]
              /\ det.examples[k].docname = det.docname
              /\ det.examples[k].example_id
                     = format_title_to_example_id(det.examples[k].title)

\* the segment a..b of the value lies between two occurrences of ", " (or
\* an end of the value) and holds none
TokenAt(v, a, b) ==
    /\ a = 1 \/ (a >= 3 /\ v[a - 2] = "," /\ v[a - 1] = " ")
    /\ b = Len(v) \/ (b + 2 <= Len(v) /\ v[b + 1] = "," /\ v[b + 2] = " ")
    /\ \A j \in a..b : ~ (j < Len(v) /\ v[j] = "," /\ v[j + 1] = " ")

\* the tokens of a value split on ", ", each without surrounding spaces
TrimmedTokens(v) ==
    {Trimmed(SubSeq(v, p[1], p[2])) :
        p \in {q \in (1..(Len(v) + 1)) \X (0..Len(v)) :
                  q[2] >= q[1] - 1 /\ TokenAt(v, q[1], q[2])}}

\* the line after the marker of the k-th example
LineAfterMarker(k) == det.text[MarkerLineOf(k) + 1]

(***************************************************************************)
(* C15: the tags of an ExampleSource are the tokens of the value of the    *)
(* tags option on the line right after its marker, split on ", " and       *)
(* trimmed; without a tags option on that line the tags are the empty set, *)
(* whatever tags lines the text holds elsewhere.                           *)
(***************************************************************************)
C15_TagsOfOptionLine ==
    \A k \in 1..Len(det.examples) :
        /\ IsTagsOption(LineAfterMarker(k)) =>
              det.examples[k].tags
                  = TrimmedTokens(OptionValue(LineAfterMarker(k)))
        /\ ~ IsTagsOption(LineAfterMarker(k)) => det.examples[k].tags = {}

\* an example was yielded for a marker whose tags option holds spaces to
\* trim and a comma that does not separate, in a text with a second tags line
C15_Witness ==
    /\ DetectDone
    /\ \E k \in 1..Len(det.examples) :
          /\ IsTagsOption(LineAfterMarker(k))
          /\ det.examples[k].tags = {<< "h" >>, << "g", ",", "G" >>}
    /\ \E i \in 2..Len(det.text) :
          IsTagsOption(det.text[i]) /\ ~ IsMarker(det.text[i - 1])

(***************************************************************************)
(* C16: the title of every ExampleSource is the title argument of its      *)
(* marker without leading and trailing whitespace, the title the example   *)
(* directive computes, and its example id is the id of that title.         *)
(***************************************************************************)
C16_TitleAsDirective ==
    \A k \in 1..Len(det.examples) :
        /\ det.examples[k].title = MarkerTitle(det.text[MarkerLineOf(k)])
        /\ det.examples[k].example_id
               = format_title_to_example_id(
                     MarkerTitle(det.text[MarkerLineOf(k)]))

\* the marker at line i stands at the start of its line, is followed by a
\* blank line, and has no title once the whitespace is trimmed
EmptyTitleAt(i) ==
    /\ StartsWith(det.text[i], DirectiveStart)
    /\ IsMarker(det.text[i])
    /\ MarkerTitle(det.text[i]) = << >>
    /\ i < Len(det.text) /\ det.text[i + 1] = << >>

Warned(i) ==
    \E j \in 1..Len(det.log) :
        det.log[j].level = "warning" /\ det.log[j].line = i

(***************************************************************************)
(* C17: detect_examples does not raise; for a marker whose title is empty  *)
(* after trimming it logs a warning and yields an ExampleSource with an    *)
(* empty title and no tags, and it goes on to the markers that follow.     *)
(***************************************************************************)
C17_EmptyTitleWarned ==
    /\ det.pc /= "raise"
    /\ DetectDone =>
          \A i \in 1..Len(det.text) :
              EmptyTitleAt(i) =>
                  /\ Warned(i)
                  /\ \E k \in 1..Len(det.examples) :
                        /\ MarkerLineOf(k) = i
                        /\ det.examples[k].title = << >>
                        /\ det.examples[k].tags = {}

\* generate_tag_pages is exhausted: the loop of lines 102-105 has ended
TagPagesGenerated == gen.pc \in {"index", "done"}

\* the elements of a list
Elements(list) == {list[i] : i \in 1..Len(list)}

\* the positions in gen.tag_pages of the tag pages of a name
TagPagesNamed(name) ==
    {t \in 1..Len(gen.tag_pages) : gen.tag_pages[t].name = name}

(***************************************************************************)
(* C18: once the tag pages are generated, for every example page P and     *)
(* every tag T of its source there is exactly one tag page named T, P is   *)
(* in its example list and the tag page is in P's tag-page list; no        *)
(* example list and no tag-page list holds an entry for a tag the example  *)
(* does not carry.                                                         *)
(***************************************************************************)
C18_TagPagesLinkBothWays ==
    TagPagesGenerated =>
        /\ \A p \in 1..Len(gen.example_pages) :
              \A name \in gen.example_pages[p].tags :
                  /\ Cardinality(TagPagesNamed(name)) = 1
                  /\ \A t \in TagPagesNamed(name) :
                        p \in Elements(gen.tag_pages[t].example_pages)
                  /\ name \in Elements(gen.example_pages[p].tag_pages)
        /\ \A t \in 1..Len(gen.tag_pages) :
              \A p \in Elements(gen.tag_pages[t].example_pages) :
                  gen.tag_pages[t].name \in gen.example_pages[p].tags
        /\ \A p \in 1..Len(gen.example_pages) :
              Elements(gen.example_pages[p].tag_pages)
                  \subseteq gen.example_pages[p].tags

\* two examples that share one tag, one of them carrying a second tag
C18_Witness ==
    /\ TagPagesGenerated
    /\ \E p, q \in 1..Len(gen.example_pages) :
          /\ gen.example_pages[p].tags = {<< "g" >>, << "h" >>}
          /\ gen.example_pages[q].tags = {<< "g" >>}
          /\ Len(gen.tag_pages) = 2

\* the titles of a list of example pages are in non-decreasing order
TitlesAscend(titles) ==
    \A i, j \in 1..Len(titles) : i < j => ~ StrLess(titles[j], titles[i])

\* the example list the index page is rendered from
IndexList == gen.rendered[Len(gen.rendered)].content.example_pages

\* the titles of the example list of the tag page at position t
TagPageTitles(t) ==
    [i \in 1..Len(gen.tag_pages[t].example_pages) |->
        gen.example_pages[gen.tag_pages[t].example_pages[i]].title]

\* how often an example with this title and id is in a list
CountIn(list, source) ==
    Cardinality({i \in 1..Len(list) :
                    /\ list[i].title = source.title
                    /\ list[i].example_id = source.example_id})

(***************************************************************************)
(* C19: after preprocessing the example list of the index page and the     *)
(* example list of every tag page are in non-decreasing order of title,    *)
(* and the list of the index page holds every detected example page.       *)
(***************************************************************************)
C19_ListsSortedByTitle ==
    PagesDone =>
        /\ TitlesAscend([i \in 1..Len(IndexList) |-> IndexList[i].title])
        /\ \A t \in 1..Len(gen.tag_pages) : TitlesAscend(TagPageTitles(t))
        /\ Len(IndexList) = Len(gen.detected)
        /\ \A i \in 1..Len(gen.detected) :
              CountIn(IndexList, gen.detected[i])
                  = CountIn(gen.detected, gen.detected[i])

\* two examples with one tag were detected in descending order of title
C19_Witness ==
    /\ PagesDone
    /\ Len(gen.detected) = 2
    /\ StrLess(gen.detected[2].title, gen.detected[1].title)
    /\ gen.detected[1].tags \cap gen.detected[2].tags /= {}

(***************************************************************************)
(* C20: generate_tag_pages yields one tag page for each tag in the union   *)
(* of the tags of all examples, no other tag page and none twice, in       *)
(* ascending order of tag name.                                            *)
(***************************************************************************)
C20_OneTagPagePerTag ==
    TagPagesGenerated =>
        /\ {gen.tag_pages[t].name : t \in 1..Len(gen.tag_pages)}
               = UNION {gen.detected[i].tags : i \in 1..Len(gen.detected)}
        /\ \A t, u \in 1..Len(gen.tag_pages) :
              t < u => StrLess(gen.tag_pages[t].name, gen.tag_pages[u].name)

\* three tags carried by two examples, neither of which carries them all
C20_Witness ==
    /\ TagPagesGenerated
    /\ Len(gen.tag_pages) = 3
    /\ \A i \in 1..Len(gen.detected) :
          Cardinality(gen.detected[i].tags) \in 1..2

\* the template of the page saved at position i of gen.rendered
TemplateAt(i) == gen.rendered[i].content.template

\* the examples as a run detects them that scans q before p
ScannedInReverse(sources) ==
    SelectSeq(sources, LAMBDA source : source.docname = << "q" >>)
        \o SelectSeq(sources, LAMBDA source : source.docname = << "p" >>)

(***************************************************************************)
(* C21: every tag page is rendered and saved before any example page,      *)
(* every example page before the index page, the index page once and last, *)
(* and a run that finds the same sources in another order of the documents *)
(* renders the same pages in the same order.                               *)
(***************************************************************************)
C21_RenderOrder ==
    /\ \A i, j \in 1..Len(gen.rendered) :
          /\ (TemplateAt(i) = "example_index/tagpage.rst"
                  /\ TemplateAt(j) /= "example_index/tagpage.rst") => i < j
          /\ (TemplateAt(i) = "example_index/examplepage.rst"
                  /\ TemplateAt(j) = "example_index/indexpage.rst") => i < j
          /\ (TemplateAt(i) = "example_index/indexpage.rst"
                  /\ TemplateAt(j) = "example_index/indexpage.rst") => i = j
    /\ PagesDone =>
          /\ TemplateAt(Len(gen.rendered)) = "example_index/indexpage.rst"
          /\ gen.rendered
                 = RunPages(NewPages(gen.examples_dir,
                                     ScannedInReverse(gen.detected))).rendered

(***************************************************************************)
(* Claims on the build of a project (Spec), continued.                     *)
(***************************************************************************)
\* how often a handler was called in the build
TimesCalled(handler) ==
    Cardinality({i \in 1..Len(app.called) : app.called[i] = handler})

\* the main build has read the documents
MainBuildDone == app.phase \in {"built", "finished"}

(***************************************************************************)
(* C22: in every build preprocess_examples is called exactly once, on      *)
(* builder-inited and before any other handler; while it writes the stubs  *)
(* the main build has read no document, and every stub it wrote is among   *)
(* the documents the main build reads.                                     *)
(***************************************************************************)
C22_PreprocessOnceBeforeMainBuild ==
    InBuild =>
        /\ TimesCalled("preprocess_examples") = 1
        /\ app.called[1] = "preprocess_examples"
        /\ app.phase = "inited" => app.read = {}
        /\ MainBuildDone =>
              \A i \in 1..Len(app.written) :
                  path2doc(app.written[i]) \in app.read

\* an enabled build of a project with examples has read its documents
C22_Witness ==
    /\ MainBuildDone
    /\ EnabledInConf
    /\ Len(app.written) >= 4
    /\ app.read /= {}

(***************************************************************************)
(* Claims on the scan of the found documents (SpecScan), continued.        *)
(***************************************************************************)
\* the document whose file could not be read
FailedDocname == scan.detect_calls[Len(scan.detect_calls)]

(***************************************************************************)
(* C23: when the file of a document cannot be read during detection,       *)
(* preprocess_examples ends with that failure and the examples directory   *)
(* holds no tag, example or index stub; it returns only when every         *)
(* document it called detect_examples on was read.                         *)
(***************************************************************************)
C23_ReadFailureWritesNothing ==
    /\ scan.pc = "raise" =>
          /\ FailedDocname \notin scan.on_disk
          /\ scan.files = NoFiles
    /\ scan.pc = "return" =>
          \A i \in 1..Len(scan.detect_calls) :
              scan.detect_calls[i] \in scan.on_disk

\* the read of a document of the project fails after an example was
\* detected in another one
C23_Witness ==
    /\ scan.pc = "raise"
    /\ scan.examples /= << >>
    /\ FailedDocname \in ProjectDocnames

(***************************************************************************)
(* Claims on the example directive (SpecMarker).                           *)
(***************************************************************************)
\* the divs of the page written from the directive that carry the class the
\* directive's visitor gives
EmittedWrappers ==
    {i \in 1..Len(mark.outfiles[get_outfilename(<< "p" >>)].body) :
        /\ mark.outfiles[get_outfilename(<< "p" >>)].body[i].name = "div"
        /\ EXAMPLE_SRC_DIV_CLASS
               \in mark.outfiles[get_outfilename(<< "p" >>)].body[i].class}

(***************************************************************************)
(* C24: the div the example directive emits for a title T has the id       *)
(* format_title_to_source_ref_id(T), which is                              *)
(* format_example_id_to_source_ref_id(format_title_to_example_id(T)), that *)
(* is "example-src-" followed by the example id; extract_example called    *)
(* with format_title_to_example_id(T) finds exactly that div, and the      *)
(* class name it searches is the one the directive emits.                  *)
(***************************************************************************)
C24_WrapperIsWhatExtractFinds ==
    /\ ExampleSourceClass = EXAMPLE_SRC_DIV_CLASS
    /\ mark.pc \in {"html", "extracted"} =>
          /\ Cardinality(EmittedWrappers) = 1
          /\ \A i \in EmittedWrappers :
                LET div == mark.outfiles[get_outfilename(<< "p" >>)].body[i]
                IN  /\ div.id = format_title_to_source_ref_id(mark.title)
                    /\ div.id = format_example_id_to_source_ref_id(
                                    format_title_to_example_id(mark.title))
                    /\ div.id = ExampleSrcPrefix \o mark.example_id
                    /\ mark.pc = "extracted" =>
                          /\ ~ mark.extracted.raised
                          /\ mark.extracted.div = div

\* extract_example has found the div of a title of several words in mixed
\* case
C24_Witness ==
    /\ mark.pc = "extracted"
    /\ mark.title = << "A", " ", "b" >>
    /\ mark.extracted.div.id = ExampleSrcPrefix \o << "a", "-", "b" >>
    /\ mark.extracted.div.children = Fragment("text")

(***************************************************************************)
(* Claims on the transplant (SpecPost), continued.                         *)
(***************************************************************************)
\* the position of the placeholder of entry k in the standalone page as the
\* main build wrote it
PlaceholderAt(k) ==
    CHOOSE i \in 1..Len(post.outfiles0[DestPathOf(k)].body) :
        LET node == post.outfiles0[DestPathOf(k)].body[i]
        IN  /\ node.name = "div"
            /\ node.id = PostExampleId(k)
            /\ EXAMPLE_CONTENT_DIV_CLASS \in node.class

\* the wrapper of entry k in its origin page
WrapperOf(k) ==
    LET body == post.outfiles0[SourcePathOf(k)].body
    IN  body[CHOOSE i \in 1..Len(body) :
                /\ body[i].name = "div"
                /\ body[i].id = ExampleSrcPrefix \o PostExampleId(k)
                /\ EXAMPLE_SRC_DIV_CLASS \in body[i].class]

\* the children of the wrapper of entry k with their URLs rewritten for the
\* standalone page
RewrittenChildren(k) ==
    adapt_relative_urls(WrapperOf(k), Outdir, SourcePathOf(k),
                        DestPathOf(k)).tree.children

\* the iteration of entry k found the wrapper and the placeholder and ended
Transplanted(k) ==
    /\ k < post.pos
    /\ ~ WrapperMissing(k)
    /\ post.outfiles0[DestPathOf(k)] /= NoFile
    /\ HadPlaceholder(k)

(***************************************************************************)
(* C25: after the transplant of an example whose wrapper and placeholder   *)
(* were found, the standalone page holds neither the placeholder div nor   *)
(* the wrapper div; the rewritten children of the wrapper stand where the  *)
(* placeholder stood and every other node of the page is as it was.        *)
(***************************************************************************)
C25_SplicedInPlace ==
    \A k \in 1..PostCacheLen :
        Transplanted(k) =>
            LET before == post.outfiles0[DestPathOf(k)].body
                after == post.w.outfiles[DestPathOf(k)].body
            IN  /\ after = SubSeq(before, 1, PlaceholderAt(k) - 1)
                               \o RewrittenChildren(k)
                               \o SubSeq(before, PlaceholderAt(k) + 1,
                                         Len(before))
                /\ \A i \in 1..Len(after) :
                      after[i].name = "div" =>
                          /\ ~ (/\ after[i].id = PostExampleId(k)
                                /\ EXAMPLE_CONTENT_DIV_CLASS
                                       \in after[i].class)
                          /\ ~ (/\ after[i].id
                                       = ExampleSrcPrefix \o PostExampleId(k)
                                /\ EXAMPLE_SRC_DIV_CLASS \in after[i].class)

\* an example with a link and an image was transplanted: both stand in the
\* standalone page after its heading, the link rewritten
C25_Witness ==
    /\ post.pos > 1
    /\ Transplanted(1)
    /\ Len(post.w.outfiles[DestPathOf(1)].body) = 3
    /\ post.w.outfiles[DestPathOf(1)].body[1] = PTag(<< "h" >>)
    /\ post.w.outfiles[DestPathOf(1)].body[2].name = "a"
    /\ post.w.outfiles[DestPathOf(1)].body[2].href /= << "q" >>
    /\ post.w.outfiles[DestPathOf(1)].body[3].name = "img"

\* the standalone page of entry k was written by the transplant of an
\* earlier call
AlreadySpliced(k) ==
    /\ post.run > 1
    /\ post.outfiles0[DestPathOf(k)].form = "bs4"

(***************************************************************************)
(* C26: a transplant of an example whose standalone page an earlier call   *)
(* has spliced finds no placeholder in it, logs an error and leaves the    *)
(* file as it is, and the loop goes on.                                    *)
(***************************************************************************)
C26_SecondTransplantNoEffect ==
    \A k \in 1..PostCacheLen :
        (AlreadySpliced(k) /\ k < post.pos) =>
            /\ ~ HadPlaceholder(k)
            /\ Logged("no placeholder", k)
            /\ DestUnchanged(k)

\* the second call has gone through a cache whose first example was
\* transplanted with its content by the first call
C26_Witness ==
    /\ post.run = 2
    /\ post.pc = "return"
    /\ post.pos = PostCacheLen + 1
    /\ AlreadySpliced(1)
    /\ ~ WrapperMissing(1)
    /\ post.w.outfiles[DestPathOf(1)].body
           = << PTag(<< "h" >>) >> \o RewrittenChildren(1)

(***************************************************************************)
(* C27: the fallback div that takes the place of the placeholder of an     *)
(* example whose wrapper is missing carries the id of that placeholder,    *)
(* the example id insert_in_example_page searches the placeholder by.      *)
(***************************************************************************)
C27_FallbackCarriesPlaceholderId ==
    \A k \in 1..PostCacheLen :
        (/\ k < post.pos
         /\ WrapperMissing(k)
         /\ post.outfiles0[DestPathOf(k)] /= NoFile
         /\ HadPlaceholder(k)) =>
            \A i \in 1..Len(post.w.outfiles[DestPathOf(k)].body) :
                LET node == post.w.outfiles[DestPathOf(k)].body[i]
                IN  (/\ node.name = "div"
                     /\ EXAMPLE_CONTENT_DIV_CLASS \in node.class) =>
                        node.id = post.outfiles0[DestPathOf(k)]
                                      .body[PlaceholderAt(k)].id

\* the entries of the cache whose iteration has ended
Processed == {k \in 1..PostCacheLen : k < post.pos}

(***************************************************************************)
(* C28: a failure while transplanting one example is logged and nothing    *)
(* else: no exception leaves postprocess_examples, and when the loop was   *)
(* entered the function returns after the iteration of every entry of the  *)
(* cache.                                                                  *)
(***************************************************************************)
C28_FailuresLoggedOnly ==
    /\ post.pc /= "raise"
    /\ (post.pc = "return"
           /\ ~ postprocess_skips(post.exception, post.format, post.enabled))
          => Processed = 1..PostCacheLen

(***************************************************************************)
(* Claims on the pages (SpecPages), continued.                             *)
(***************************************************************************)
(***************************************************************************)
(* C29: once a page has been rendered, every tag page has been             *)
(* constructed and the tag-page list of every example page holds the tag   *)
(* page of each tag of its source.                                         *)
(***************************************************************************)
C29_AssociatedBeforeRendering ==
    gen.rendered /= << >> =>
        /\ Len(gen.tag_pages) = Len(gen.tag_names)
        /\ \A i \in 1..Len(gen.example_pages) :
              \A tag \in gen.example_pages[i].tags :
                  tag \in Elements(gen.example_pages[i].tag_pages)

\* what holds of the example pages and the index page: they are rendered
\* after the generator of the tag pages is exhausted
AssociatedBeforeExamplePages ==
    (\E n \in 1..Len(gen.rendered) :
        gen.rendered[n].content.template /= "example_index/tagpage.rst") =>
        /\ Len(gen.tag_pages) = Len(gen.tag_names)
        /\ \A i \in 1..Len(gen.example_pages) :
              \A tag \in gen.example_pages[i].tags :
                  tag \in Elements(gen.example_pages[i].tag_pages)

\* lines 75-105 on a cache from entry pos on: the loop ends with its last
\* entry or with the first iteration that raises
RECURSIVE LoopFrom(_, _, _)
LoopFrom(w, cache, pos) ==
    IF pos > Len(cache) \/ w.raised
    THEN w
    ELSE LoopFrom(process_example(w, cache[pos].example_id, cache[pos]),
                  cache, pos + 1)

\* the cache in each order its entries can be iterated in
Reorderings(cache) ==
    {[i \in 1..Len(cache) |-> cache[order[i]]] :
        order \in {f \in [1..Len(cache) -> 1..Len(cache)] :
                      \A i, j \in 1..Len(cache) : f[i] = f[j] => i = j}}

\* the loop of this call has ended, by its last entry or by an exception
LoopEnded ==
    /\ ~ postprocess_skips(post.exception, post.format, post.enabled)
    /\ post.pc \in {"return", "raise"}

(***************************************************************************)
(* C30: the transplant of an example writes the standalone page of that    *)
(* example only and no origin page, and the files the loop leaves are the  *)
(* same for every order in which the entries of the cache are processed.   *)
(***************************************************************************)
C30_OrderIndependent ==
    /\ \A o \in post.w.opens :
          o.mode = "w" => \E k \in 1..PostCacheLen :
                              Entered(k) /\ o.path = DestPathOf(k)
    /\ \A k \in 1..PostCacheLen :
          post.w.outfiles[SourcePathOf(k)] = post.outfiles0[SourcePathOf(k)]
    /\ LoopEnded =>
          \A cache \in Reorderings(post.ext_example_index) :
              LoopFrom(World(post.outfiles0), cache, 1).outfiles
                  = post.w.outfiles

\* the same for the calls in which no iteration raises
OrderIndependentUnlessRaised ==
    (LoopEnded /\ post.pc = "return") =>
        \A cache \in Reorderings(post.ext_example_index) :
            LET w == LoopFrom(World(post.outfiles0), cache, 1)
            IN  ~ w.raised => w.outfiles = post.w.outfiles

=============================================================================
